---- MODULE Spec2Model ----
(***************************************************************************)
(* BlueGuard-AI frontend: the resilient request layer (retryRequest,       *)
(* ApiCache, enhancedApiClient) and the zone-check orchestrator (checkZone  *)
(* of api/checkZone.ts and its single-coordinate variant), as state         *)
(* machines whose suspension points are the awaits of the source.           *)
(***************************************************************************)
EXTENDS Integers, Sequences, FiniteSets, TLC

VARIABLES
    rr,       \* the retryRequest call in progress (its recursion unrolled)
    cache,    \* ApiCache.cache: key -> [data, timestamp]
    now,      \* Date.now()
    lastGet,  \* what the latest ApiCache.get was asked and what it returned
    hc,       \* the healthCheck calls of one caller, made one after the other
    zr,       \* one checkZone run
    api,      \* the enhancedApiClient calls of one caller, made one after the other
    ui,       \* the ZoneViolation page: one handleZoneCheck run and what it shows
    fn,       \* one application of a function of the sources to one input
    par       \* the calls of two callers that run at the same time

vars == <<rr, cache, now, lastGet, hc, zr, api, ui, fn, par>>

(***************************************************************************)
(* Bounds of the model.                                                    *)
(***************************************************************************)
MaxRetriesArg == 4    \* retryRequest is started with retries in 0..MaxRetriesArg
MaxClock == 60000     \* Date.now() stops advancing here
MaxCacheOps == 3      \* number of ApiCache.get calls in the cache runs
MaxHealthCalls == 2   \* number of healthCheck calls one caller makes
MaxVessels == 3       \* longest vessel list given to checkZone (checkZone.ts)
MaxVesselsSingle == 2 \* longest vessel list given to the single-coordinate variant
MaxResults == 2       \* longest results array in a backend response
MaxCsvRows == 2       \* most data lines in a CSV text given to the parser
MaxAisRows == 2       \* most rows given to processVesselData's normalization
MaxExport == 3        \* longest result list given to convertToCSV
MaxApiCalls == 2      \* number of enhancedApiClient calls one caller makes

(***************************************************************************)
(* JavaScript values, as far as the code looks at them.                    *)
(***************************************************************************)
Undef == [t |-> "undefined", n |-> 0, s |-> ""]
Null == [t |-> "null", n |-> 0, s |-> ""]
Num(k) == [t |-> "number", n |-> k, s |-> ""]
NaN == [t |-> "number", n |-> 0, s |-> "NaN"]
Inf(sign) == [t |-> "number", n |-> sign, s |-> "Infinity"]
Str(text) == [t |-> "string", n |-> 0, s |-> text]
Bool(b) == [t |-> "boolean", n |-> IF b THEN 1 ELSE 0, s |-> ""]
Obj(tag) == [t |-> "object", n |-> 0, s |-> tag]

\* Texts are TLA+ strings; CharAt(text, i) is the i-th character.
CharAt(text, i) == SubSeq(text, i, i)

WhiteSpace == {" ", "\t", "\n", "\r"}

\* String.prototype.trim
RECURSIVE Trim(_)
Trim(text) ==
    IF text = "" THEN ""
    ELSE IF CharAt(text, 1) \in WhiteSpace THEN Trim(SubSeq(text, 2, Len(text)))
    ELSE IF CharAt(text, Len(text)) \in WhiteSpace
         THEN Trim(SubSeq(text, 1, Len(text) - 1))
    ELSE text

\* String.prototype.split(sep) for a one-character separator
RECURSIVE Split(_, _)
Split(text, sep) ==
    LET hits == {i \in 1..Len(text) : CharAt(text, i) = sep}
    IN IF hits = {} THEN <<text>>
       ELSE LET i == CHOOSE h \in hits : \A g \in hits : h <= g
            IN <<SubSeq(text, 1, i - 1)>> \o Split(SubSeq(text, i + 1, Len(text)), sep)

\* String.prototype.toLowerCase
LowerOf ==
    [c \in {"A", "B", "D", "E", "G", "I", "L", "N", "O", "S", "T", "U", "V"} |->
        CASE c = "A" -> "a" [] c = "B" -> "b" [] c = "D" -> "d" [] c = "E" -> "e"
          [] c = "G" -> "g" [] c = "I" -> "i" [] c = "L" -> "l" [] c = "N" -> "n"
          [] c = "O" -> "o" [] c = "S" -> "s" [] c = "T" -> "t" [] c = "U" -> "u"
          [] c = "V" -> "v"]

RECURSIVE toLowerCase(_)
toLowerCase(text) ==
    IF text = "" THEN ""
    ELSE LET c == CharAt(text, 1)
         IN (IF c \in DOMAIN LowerOf THEN LowerOf[c] ELSE c)
            \o toLowerCase(SubSeq(text, 2, Len(text)))

DigitValue ==
    ("0" :> 0) @@ ("1" :> 1) @@ ("2" :> 2) @@ ("3" :> 3) @@ ("4" :> 4) @@ ("5" :> 5)
    @@ ("6" :> 6) @@ ("7" :> 7) @@ ("8" :> 8) @@ ("9" :> 9)

IsDigits(text) ==
    text # "" /\ \A i \in 1..Len(text) : CharAt(text, i) \in DOMAIN DigitValue

RECURSIVE DigitsValue(_)
DigitsValue(text) ==
    IF text = "" THEN 0
    ELSE 10 * DigitsValue(SubSeq(text, 1, Len(text) - 1)) + DigitValue[CharAt(text, Len(text))]

\* Number(text): white space is trimmed, the empty text is 0, a signed run of
\* digits is its value, "Infinity" is infinite, any other text is NaN (the
\* texts of the model hold no fraction, exponent or radix prefix)
StringToNumber(text) ==
    LET t == Trim(text)
        signed == t # "" /\ CharAt(t, 1) \in {"-", "+"}
        body == IF signed THEN SubSeq(t, 2, Len(t)) ELSE t
        sign == IF signed /\ CharAt(t, 1) = "-" THEN -1 ELSE 1
    IN IF t = "" THEN Num(0)
       ELSE IF IsDigits(body) THEN Num(sign * DigitsValue(body))
       ELSE IF body = "Infinity" THEN Inf(sign)
       ELSE NaN

\* Number(v)
ToNumber(v) ==
    CASE v.t = "number" -> v
      [] v.t = "undefined" -> NaN
      [] v.t = "null" -> Num(0)
      [] v.t = "boolean" -> Num(v.n)
      [] v.t = "string" -> StringToNumber(v.s)
      [] OTHER -> NaN

\* isNaN(x), x >= k and x <= k for a number x
IsNaN(x) == x.s = "NaN"
Ge(x, k) == IF IsNaN(x) THEN FALSE ELSE IF x.s = "Infinity" THEN x.n > 0 ELSE x.n >= k
Le(x, k) == IF IsNaN(x) THEN FALSE ELSE IF x.s = "Infinity" THEN x.n < 0 ELSE x.n <= k

\* the truthiness of a value (if (v), v || d, v && w)
Truthy(v) ==
    CASE v.t = "undefined" -> FALSE
      [] v.t = "null" -> FALSE
      [] v.t = "boolean" -> v.n = 1
      [] v.t = "number" -> ~IsNaN(v) /\ v.n # 0
      [] v.t = "string" -> v.s # ""
      [] OTHER -> TRUE

JsOr(v, d) == IF Truthy(v) THEN v ELSE d
JsAnd(v, w) == IF Truthy(v) THEN w ELSE v

(***************************************************************************)
(* API_CONFIG                                                              *)
(***************************************************************************)
MAX_RETRIES == 3
INITIAL_RETRY_DELAY == 1000
MAX_RETRY_DELAY == 5000
CACHE_TTL == 5 * 60 * 1000
HEALTH_TTL == 30000

Min(a, b) == IF a < b THEN a ELSE b

(***************************************************************************)
(* ApiError and the response interceptor                                   *)
(***************************************************************************)
StatusUndefined == 0    \* error.response?.status of a failure without a response

\* ApiError.getDefaultSuggestion
getDefaultSuggestion(status) ==
    CASE status = 400 -> "Please check your input data and try again"
      [] status = 401 -> "Please log in and try again"
      [] status = 403 -> "You don't have permission to perform this action"
      [] status = 404 -> "The requested resource could not be found"
      [] status = 429 -> "Please wait a moment and try again"
      [] status = 500 -> "This is a server error. Please try again later or contact support if the problem persists"
      [] OTHER -> "Please try again or contact support if the problem persists"

\* new ApiError(message, status, code, timestamp, path, suggestion)
NewApiError(message, status, code, suggestion) ==
    [name |-> "ApiError", message |-> message, status |-> status, code |-> code,
     suggestion |-> IF suggestion = "" THEN getDefaultSuggestion(status) ELSE suggestion]

\* new Error(message), new TypeError(message)
NewError(message) ==
    [name |-> "Error", message |-> message, status |-> StatusUndefined, code |-> "",
     suggestion |-> ""]
NewTypeError(message) ==
    [name |-> "TypeError", message |-> message, status |-> StatusUndefined, code |-> "",
     suggestion |-> ""]
NoError == [name |-> "", message |-> "", status |-> StatusUndefined, code |-> "",
            suggestion |-> ""]

\* the rejected handler of axiosInstance.interceptors.response: status is the
\* status of the response (StatusUndefined for a timeout or a network failure),
\* detail and code are data?.detail and data?.code ("" when absent)
responseInterceptor(status, detail, code) ==
    LET message ==
            IF status = 404 THEN "The requested resource was not found"
            ELSE IF status = 400 THEN (IF detail # "" THEN detail ELSE "Invalid request")
            ELSE IF status = 401 THEN "Unauthorized access"
            ELSE IF status = 403 THEN "Access forbidden"
            ELSE IF status = 429 THEN "Too many requests, please try again later"
            ELSE IF status # StatusUndefined /\ status >= 500
                 THEN "Server error, please try again later"
            ELSE "An unexpected error occurred"
    IN NewApiError(message, status, code, "")

(***************************************************************************)
(* retryRequest(fn, retries, delay)                                        *)
(*                                                                         *)
(* An attempt is one call of fn.  Its outcome is what the awaited promise   *)
(* settles with: "ok" (fn resolves with data), "http" (the service answers  *)
(* with an error status), "timeout" and "network" (no response: the        *)
(* interceptor sees no status), "thrown" (fn rejects with something that is *)
(* not an ApiError).                                                       *)
(***************************************************************************)
HttpErrorStatuses == {400, 401, 403, 404, 429, 500, 503}

OkOutcome(data) == [kind |-> "ok", status |-> 200, data |-> data]
HttpOutcome(status) == [kind |-> "http", status |-> status, data |-> Undef]
NoResponseOutcome(kind) == [kind |-> kind, status |-> StatusUndefined, data |-> Undef]
ThrownOutcome == [kind |-> "thrown", status |-> StatusUndefined, data |-> Undef]

FailureOutcomes ==
    {HttpOutcome(st) : st \in HttpErrorStatuses}
    \cup {NoResponseOutcome("timeout"), NoResponseOutcome("network"), ThrownOutcome}

\* an error status answered with a body that has a detail and a code
ErrorBody(detail, code) ==
    [t |-> "object", n |-> 0, s |-> "", detail |-> detail, code |-> code]
HttpOutcomeWithBody(status, detail, code) ==
    [kind |-> "http", status |-> status, data |-> ErrorBody(detail, code)]

\* what fn rejects with: every failure of the axios call goes through the
\* response interceptor, which reads data?.detail and data?.code ("" when
\* absent); a "thrown" outcome is a plain Error
attemptError(o) ==
    IF o.kind = "thrown" THEN NewError("fn failed")
    ELSE IF o.data = Undef THEN responseInterceptor(o.status, "", "")
    ELSE responseInterceptor(o.status, o.data.detail, o.data.code)

RetryIdle ==
    [pc |-> "idle", retries0 |-> 0, retries |-> 0, delay |-> 0, attempts |-> 0,
     waits |-> <<>>, outcomes |-> <<>>, value |-> Undef, error |-> NoError]

\* retryRequest(fn, retries, delay) up to its first await: fn() is called
retryStart(retries, delay) ==
    [RetryIdle EXCEPT !.pc = "calling", !.retries0 = retries, !.retries = retries,
                      !.delay = delay, !.attempts = 1]

\* the catch block's test "don't retry on certain status codes or after max retries"
MutNoRetry_RetryAuthErrors(error, retries) == retries <= 0
MutNoRetry_FailFastWithoutResponse(error, retries) ==
    error.status \in {400, 401, 403, StatusUndefined} \/ retries <= 0
MutNoRetry_OneMoreAttempt(error, retries) ==
    error.status = 400 \/ error.status = 401 \/ error.status = 403 \/ retries < 0
noRetry(error, retries) ==
    error.status = 400 \/ error.status = 401 \/ error.status = 403 \/ retries <= 0

\* await fn() settles with outcome o: return, or the catch block up to the
\* setTimeout it awaits
retrySettle(r, o) ==
    LET seen == [r EXCEPT !.outcomes = Append(@, [kind |-> o.kind, status |-> o.status])]
        error == attemptError(o)
    IN IF o.kind = "ok" THEN [seen EXCEPT !.pc = "returned", !.value = o.data]
       ELSE IF error.name # "ApiError" THEN [seen EXCEPT !.pc = "threw", !.error = error]
       ELSE IF noRetry(error, r.retries) THEN [seen EXCEPT !.pc = "threw", !.error = error]
       ELSE [seen EXCEPT !.pc = "waiting", !.waits = Append(@, r.delay)]

\* the timer fires: retryRequest(fn, retries - 1, Math.min(delay * 2, MAX_RETRY_DELAY))
\* runs up to its await, calling fn() again
MutBackoff_NoDoubling(r) ==
    [r EXCEPT !.pc = "calling", !.retries = @ - 1, !.attempts = @ + 1]
retryBackoffElapsed(r) ==
    [r EXCEPT !.pc = "calling", !.retries = @ - 1,
              !.delay = Min(@ * 2, MAX_RETRY_DELAY), !.attempts = @ + 1]

(***************************************************************************)
(* ApiCache                                                                *)
(***************************************************************************)
EmptyCache == [k \in {} |-> [data |-> Undef, timestamp |-> 0]]

\* ApiCache.set(key, data, ttl) at the instant t
MutCacheSet_KeepsExistingEntry(c, key, data, ttl, t) ==
    [k \in DOMAIN c \cup {key} |->
        IF k = key /\ k \notin DOMAIN c THEN [data |-> data, timestamp |-> t + ttl]
        ELSE c[k]]
cacheSet(c, key, data, ttl, t) ==
    [k \in DOMAIN c \cup {key} |->
        IF k = key THEN [data |-> data, timestamp |-> t + ttl] ELSE c[k]]

\* the test of ApiCache.get that decides an entry has expired
MutExpired_AtExpiryInstant(t, item) == t >= item.timestamp
expired(t, item) == t > item.timestamp

\* ApiCache.get(key) at the instant t: the value returned, the return
\* statement taken, and the cache it leaves
cacheGet(c, key, t) ==
    IF key \notin DOMAIN c
    THEN [value |-> Null, branch |-> "absent", cache |-> c]
    ELSE IF expired(t, c[key])
    THEN [value |-> Null, branch |-> "expired",
          cache |-> [k \in DOMAIN c \ {key} |-> c[k]]]
    ELSE [value |-> c[key].data, branch |-> "hit", cache |-> c]

\* ApiCache.clear()
MutCacheClear_HealthEntryOnly(c) == [k \in DOMAIN c \ {"health-check"} |-> c[k]]
cacheClear(c) == EmptyCache

NoGet == [key |-> "", value |-> Null, branch |-> "", seq |-> 0]

\* enhancedApiClient.healthCheck: the calls one caller makes, one after the
\* other.  log has one entry per finished call.
HealthIdle ==
    [pc |-> "idle", startedAt |-> 0, cleared |-> FALSE, clearedBefore |-> FALSE,
     log |-> <<>>]

HEALTH_KEY == "health-check"

\* "if (cached) return cached": is the value ApiCache.get returned served?
servedFromCache(cached) == Truthy(cached)

\* a healthCheck call that ended: what it returned (ok) or that it rejected,
\* the network calls it issued, when it started, when it stored its response
HealthEntry(h, ok, value, net, fetched, storedAt) ==
    [ok |-> ok, value |-> value, net |-> net, fetched |-> fetched,
     startedAt |-> h.startedAt, storedAt |-> storedAt,
     clearedBefore |-> h.clearedBefore]

healthCheckEnds(h, entry) ==
    [h EXCEPT !.pc = "idle", !.cleared = FALSE, !.log = Append(@, entry)]

\* a checkZone run: response is the answer a completed run formatted; pc is "idle", "requesting", "completed" (a result with
\* success true was returned), "failed" (a result with success false was
\* returned) or "threw" (the promise was rejected); requested says that
\* apiClient.checkZoneViolations was called
NoResult == [t |-> "none"]
ZoneIdle ==
    [pc |-> "idle", variant |-> "", vessels |-> <<>>, request |-> <<>>,
     requested |-> FALSE,
     response |-> Undef, out |-> NoResult, thrown |-> NoError]

\* the calls of enhancedApiClient's operations one caller makes, one after
\* the other: call is the call in progress, last the call that ended last,
\* origin the call that stored each cache entry
NoApiCall == [op |-> "", a |-> "", b |-> ""]
NoApiEntry ==
    [call |-> NoApiCall, ok |-> FALSE, served |-> FALSE, value |-> Undef,
     error |-> NoError, attempts |-> 0, body |-> Undef, stored |-> FALSE]
ApiIdle ==
    [pc |-> "idle", calls |-> 0, call |-> NoApiCall, last |-> NoApiEntry,
     origin |-> [k \in {} |-> NoApiCall]]

\* the ZoneViolation page before handleZoneCheck ran: zoneResults is null and
\* no toast was shown.  csvData, data, toasts and outcome are those of the
\* latest handleZoneCheck run, zoneResults and loading the state of the page;
\* abandoned says that the user left the page while a run was pending
PageIdle ==
    [pc |-> "idle", csvData |-> "", data |-> <<>>, loading |-> FALSE,
     zoneResults |-> Null, toasts |-> <<>>, outcome |-> "", abandoned |-> FALSE]

\* the callers that run at the same time, and what each holds: the call it
\* makes, the retryRequest call and the checkZone run of its own; input and
\* answer are what the caller passed and what the service answered it, order
\* the rank of the call among the calls that ended, overlapped that the call
\* of the other caller was in flight when this one began
Callers == {"A", "B"}
ProcIdle ==
    [pc |-> "idle", call |-> NoApiCall, rr |-> RetryIdle, zr |-> ZoneIdle,
     missed |-> FALSE, ok |-> FALSE, value |-> Undef, order |-> 0,
     input |-> << >>, answer |-> Undef, overlapped |-> FALSE]

\* no function applied yet
NoCall == [op |-> "", input |-> Undef, output |-> Undef]

(***************************************************************************)
(* Specification SpecRetry: one retryRequest call against every pattern of *)
(* attempt outcomes.                                                       *)
(***************************************************************************)
RetryData == {Obj("pong"), Null}

Init ==
    /\ rr = RetryIdle
    /\ cache = EmptyCache
    /\ now = 0
    /\ lastGet = NoGet
    /\ hc = HealthIdle
    /\ zr = ZoneIdle
    /\ api = ApiIdle
    /\ ui = PageIdle
    /\ fn = NoCall
    /\ par = [c \in Callers |-> ProcIdle]

RetryCall ==
    /\ rr.pc = "idle"
    /\ \E retries \in 0..MaxRetriesArg : rr' = retryStart(retries, INITIAL_RETRY_DELAY)
    /\ UNCHANGED <<cache, now, lastGet, hc, zr, api, ui, fn, par>>

AttemptSucceeds ==
    /\ rr.pc = "calling"
    /\ \E data \in RetryData : rr' = retrySettle(rr, OkOutcome(data))
    /\ UNCHANGED <<cache, now, lastGet, hc, zr, api, ui, fn, par>>

AttemptFails ==
    /\ rr.pc = "calling"
    /\ \E o \in FailureOutcomes : rr' = retrySettle(rr, o)
    /\ UNCHANGED <<cache, now, lastGet, hc, zr, api, ui, fn, par>>

BackoffElapses ==
    /\ rr.pc = "waiting"
    /\ rr' = retryBackoffElapsed(rr)
    /\ UNCHANGED <<cache, now, lastGet, hc, zr, api, ui, fn, par>>

NextRetry == RetryCall \/ AttemptSucceeds \/ AttemptFails \/ BackoffElapses

SpecRetry == Init /\ [][NextRetry]_vars

RECURSIVE Pow2(_)
Pow2(k) == IF k = 0 THEN 1 ELSE 2 * Pow2(k - 1)

AllAttemptsFailed500(r) ==
    \A k \in 1..Len(r.outcomes) : r.outcomes[k].kind = "http" /\ r.outcomes[k].status = 500

\* C1: a retryRequest call whose every attempt fails with status 500 never
\* returns; once it has ended it has made exactly retries + 1 attempts (4 with
\* the default MAX_RETRIES = 3, after waits of 1000, 2000 and 4000 ms), and
\* the k-th wait of any call is min(1000 * 2^(k-1), 5000).
C1_RetryExhaustion ==
    /\ \A k \in 1..Len(rr.waits) :
          rr.waits[k] = Min(INITIAL_RETRY_DELAY * Pow2(k - 1), MAX_RETRY_DELAY)
    /\ AllAttemptsFailed500(rr) => rr.pc # "returned"
    /\ (rr.pc = "threw" /\ AllAttemptsFailed500(rr)) =>
          /\ rr.attempts = rr.retries0 + 1
          /\ Len(rr.outcomes) = rr.attempts
          /\ Len(rr.waits) = rr.retries0
          /\ rr.error.status = 500
          /\ rr.retries0 = MAX_RETRIES =>
                (rr.attempts = 4 /\ rr.waits = <<1000, 2000, 4000>>)

C1_Witness ==
    /\ rr.pc = "threw"
    /\ rr.retries0 = MAX_RETRIES
    /\ Len(rr.outcomes) = 4
    /\ AllAttemptsFailed500(rr)

FailFastStatuses == {400, 401, 403}

\* C2: an attempt that fails with status 400, 401 or 403 is the last attempt
\* of its call: the call has ended with that attempt's error, no wait was
\* started after it, and when it was the first attempt exactly 1 attempt was made.
C2_NoRetryOnClientErrors ==
    \A k \in 1..Len(rr.outcomes) :
        (rr.outcomes[k].kind = "http" /\ rr.outcomes[k].status \in FailFastStatuses) =>
            /\ k = Len(rr.outcomes)
            /\ rr.pc = "threw"
            /\ rr.attempts = k
            /\ Len(rr.waits) = k - 1
            /\ rr.error.name = "ApiError"
            /\ rr.error.status = rr.outcomes[k].status

C2_Witness ==
    /\ rr.pc = "threw"
    /\ rr.attempts = 1
    /\ rr.retries = MAX_RETRIES
    /\ rr.outcomes[1].status = 401

\* the failure classes the request layer retries: 404, 429, every 5xx, a
\* timeout, a network failure without a response
IsRetryEligible(o) ==
    \/ o.kind = "http" /\ (o.status \in {404, 429} \/ o.status >= 500)
    \/ o.kind \in {"timeout", "network"}

\* C13: an attempt that fails with 404, 429, a 5xx status, a timeout or a
\* network failure while retries remain does not end the call: retryRequest
\* waits the backoff delay and then makes the next attempt.
C13_RetryEligibleClasses ==
    \A k \in 1..Len(rr.outcomes) :
        (IsRetryEligible(rr.outcomes[k]) /\ k <= rr.retries0) =>
            /\ Len(rr.waits) >= k
            /\ rr.waits[k] = Min(INITIAL_RETRY_DELAY * Pow2(k - 1), MAX_RETRY_DELAY)
            /\ k = Len(rr.outcomes) =>
                  \/ rr.pc = "waiting" /\ rr.attempts = k
                  \/ rr.pc = "calling" /\ rr.attempts = k + 1
            /\ k < Len(rr.outcomes) => rr.attempts > k

C13_Witness ==
    /\ rr.pc = "calling"
    /\ rr.attempts = 5
    /\ rr.outcomes[1].kind = "timeout"
    /\ rr.outcomes[2].kind = "network"
    /\ rr.outcomes[3].status = 404
    /\ rr.outcomes[4].status = 503

\* every attempt settles (the request has a timeout) and every backoff timer
\* fires
SpecRetryLive ==
    /\ SpecRetry
    /\ WF_vars(AttemptSucceeds \/ AttemptFails)
    /\ WF_vars(BackoffElapses)

RetryEnded == rr.pc \in {"returned", "threw"}

RetryBounded ==
    /\ rr.attempts <= rr.retries0 + 1
    /\ Len(rr.outcomes) <= rr.attempts
    /\ \A k \in 1..Len(rr.outcomes) :
          /\ rr.outcomes[k].kind = "ok" =>
                /\ k = Len(rr.outcomes)
                /\ rr.pc = "returned"
                /\ rr.attempts = k
                /\ rr.value \in RetryData
          /\ rr.outcomes[k].kind = "thrown" =>
                /\ k = Len(rr.outcomes)
                /\ rr.pc = "threw"
                /\ rr.attempts = k
                /\ Len(rr.waits) = k - 1
                /\ rr.error.name # "ApiError"
    /\ rr.pc = "returned" => rr.outcomes[Len(rr.outcomes)].kind = "ok"

\* C28: a retryRequest call with retries = r >= 0 never makes more than r + 1
\* attempts; a successful attempt is its last attempt and the call returns
\* that attempt's result; an attempt that throws an error that is no ApiError
\* is its last attempt and the call throws after it without a wait; and every
\* call that was started ends (returns or throws).
C28_RetryTerminates ==
    /\ []RetryBounded
    /\ (rr.pc = "calling") ~> RetryEnded

\* a call returned at its third attempt, after two failed attempts
C28_Witness ==
    /\ rr.pc = "returned"
    /\ rr.attempts = 3
    /\ Len(rr.waits) = 2
    /\ rr.retries0 = 2

(***************************************************************************)
(* Specification SpecCache: set, get and clear on one ApiCache while the   *)
(* clock advances.                                                         *)
(***************************************************************************)
CacheKeys == {"health-check", "csv-u1"}
CacheData == {Obj("a"), Null}
TtlPool == {0, HEALTH_TTL}
ClockSteps == {15000}

ApiCacheSet ==
    /\ \E key \in CacheKeys, data \in CacheData, ttl \in TtlPool :
          cache' = cacheSet(cache, key, data, ttl, now)
    /\ UNCHANGED <<rr, now, lastGet, hc, zr, api, ui, fn, par>>

ApiCacheGet ==
    /\ lastGet.seq < MaxCacheOps
    /\ \E key \in CacheKeys :
          LET got == cacheGet(cache, key, now)
          IN /\ cache' = got.cache
             /\ lastGet' = [key |-> key, value |-> got.value, branch |-> got.branch,
                            seq |-> lastGet.seq + 1]
    /\ UNCHANGED <<rr, now, hc, zr, api, ui, fn, par>>

ApiCacheClear ==
    /\ cache' = cacheClear(cache)
    /\ UNCHANGED <<rr, now, lastGet, hc, zr, api, ui, fn, par>>

ClockAdvances ==
    /\ \E d \in ClockSteps : now + d <= MaxClock /\ now' = now + d
    /\ UNCHANGED <<rr, cache, lastGet, hc, zr, api, ui, fn, par>>

NextCache == ApiCacheSet \/ ApiCacheGet \/ ApiCacheClear \/ ClockAdvances

SpecCache == Init /\ [][NextCache]_vars

\* C9: every ApiCache.get of a key whose entry has expired (the clock is past
\* set instant + ttl) returns a miss and removes the entry; a get of a key
\* without an entry is a miss; a get at or before the expiry instant returns
\* the stored value and leaves the cache as it was.
C9_CacheExpiry ==
    [][\A key \in CacheKeys :
          (lastGet'.seq = lastGet.seq + 1 /\ lastGet'.key = key) =>
              IF key \notin DOMAIN cache
              THEN lastGet'.value = Null /\ cache' = cache
              ELSE IF now > cache[key].timestamp
              THEN /\ lastGet'.value = Null
                   /\ key \notin DOMAIN cache'
                   /\ \A k \in DOMAIN cache \ {key} :
                          k \in DOMAIN cache' /\ cache'[k] = cache[k]
              ELSE lastGet'.value = cache[key].data /\ cache' = cache]_vars

C9_Witness ==
    /\ lastGet.seq >= 2
    /\ lastGet.branch = "expired"
    /\ lastGet.key \notin DOMAIN cache
    /\ DOMAIN cache # {}

(***************************************************************************)
(* Specification SpecHealth: one caller makes healthCheck calls one after  *)
(* the other, the clock advances, clearCache may be called.                *)
(***************************************************************************)
HealthResponses == {Obj("healthy"), Obj("degraded"), Str("")}
HealthFailures == {HttpOutcome(500), HttpOutcome(401)}

\* healthCheck() up to its await: a truthy cached value is returned, otherwise
\* the request is issued through retryRequest
HealthCheckCall ==
    /\ hc.pc = "idle"
    /\ rr.pc = "idle"
    /\ Len(hc.log) < MaxHealthCalls
    /\ LET got == cacheGet(cache, HEALTH_KEY, now)
           h == [hc EXCEPT !.startedAt = now, !.clearedBefore = hc.cleared]
       IN /\ cache' = got.cache
          /\ lastGet' = [key |-> HEALTH_KEY, value |-> got.value, branch |-> got.branch,
                         seq |-> lastGet.seq + 1]
          /\ IF servedFromCache(got.value)
             THEN /\ hc' = healthCheckEnds(h, HealthEntry(h, TRUE, got.value, 0, FALSE, 0))
                  /\ rr' = rr
             ELSE /\ hc' = [h EXCEPT !.pc = "requesting"]
                  /\ rr' = retryStart(MAX_RETRIES, INITIAL_RETRY_DELAY)
    /\ UNCHANGED <<now, zr, api, ui, fn, par>>

\* an attempt resolves: retryRequest returns, healthCheck stores the data for
\* 30 seconds and returns it
HealthAttemptSucceeds ==
    /\ hc.pc = "requesting"
    /\ rr.pc = "calling"
    /\ \E data \in HealthResponses :
          LET r == retrySettle(rr, OkOutcome(data))
          IN /\ cache' = cacheSet(cache, HEALTH_KEY, r.value, HEALTH_TTL, now)
             /\ hc' = healthCheckEnds(hc, HealthEntry(hc, TRUE, r.value, r.attempts, TRUE, now))
    /\ rr' = RetryIdle
    /\ UNCHANGED <<now, lastGet, zr, api, ui, fn, par>>

\* an attempt fails: retryRequest waits for the next attempt, or throws and
\* healthCheck rejects with its error
HealthAttemptFails ==
    /\ hc.pc = "requesting"
    /\ rr.pc = "calling"
    /\ \E o \in HealthFailures :
          LET r == retrySettle(rr, o)
          IN IF r.pc = "threw"
             THEN /\ hc' = healthCheckEnds(hc, HealthEntry(hc, FALSE, Undef, r.attempts, FALSE, 0))
                  /\ rr' = RetryIdle
             ELSE /\ rr' = r
                  /\ hc' = hc
    /\ UNCHANGED <<cache, now, lastGet, zr, api, ui, fn, par>>

\* enhancedApiClient.clearCache
ClearCache ==
    /\ cache' = cacheClear(cache)
    /\ hc' = [hc EXCEPT !.cleared = TRUE]
    /\ UNCHANGED <<rr, now, lastGet, zr, api, ui, fn, par>>

NextHealth ==
    \/ HealthCheckCall
    \/ HealthAttemptSucceeds
    \/ HealthAttemptFails
    \/ BackoffElapses
    \/ ClearCache
    \/ ClockAdvances

SpecHealth == Init /\ [][NextHealth]_vars

\* C10: of two healthCheck calls made one after the other, when the first
\* fetched its response with one network call, no clearCache came between them
\* and the second starts within 30 seconds of the first storing its response,
\* the second issues no network call (one network call in total) and returns
\* the value the first returned, whatever that value is.
C10_HealthCheckIdempotent ==
    \A i \in 1..(Len(hc.log) - 1) :
        LET first == hc.log[i]
            second == hc.log[i + 1]
        IN (/\ first.ok
            /\ first.fetched
            /\ first.net = 1
            /\ ~second.clearedBefore
            /\ second.startedAt <= first.storedAt + HEALTH_TTL) =>
               /\ first.net + second.net = 1
               /\ second.ok
               /\ second.value = first.value

\* the case of C10 with a response the cache serves again
C10_Witness ==
    /\ Len(hc.log) = 2
    /\ hc.log[1].fetched /\ hc.log[1].net = 1
    /\ hc.log[1].value = Obj("healthy")
    /\ ~hc.log[2].clearedBefore
    /\ hc.log[2].startedAt = hc.log[1].storedAt + HEALTH_TTL
    /\ hc.log[2].net = 0

(***************************************************************************)
(* checkZone (api/checkZone.ts)                                            *)
(***************************************************************************)
Pair(x, y) == [t |-> "array", n |-> 0, s |-> "", at0 |-> x, at1 |-> y]
Array(items) == [t |-> "array", n |-> 0, s |-> "", items |-> items]

Vessel(id, lat, lon, behavior) ==
    [t |-> "object", n |-> 0, s |-> "", vessel_id |-> id, latitude |-> lat,
     longitude |-> lon, behavior |-> behavior]

\* a function's outcome: it returned value, or it threw error
Returned(value) == [threw |-> FALSE, error |-> NoError, value |-> value]
Threw(error) == [threw |-> TRUE, error |-> error, value |-> NoResult]

isValidCoordinate(lat, lng) ==
    LET latitude == ToNumber(lat)
        longitude == ToNumber(lng)
    IN /\ ~IsNaN(latitude)
       /\ ~IsNaN(longitude)
       /\ Ge(latitude, -90)
       /\ Le(latitude, 90)
       /\ Ge(longitude, -180)
       /\ Le(longitude, 180)

\* `VESSEL${String(index + 1).padStart(3, '0')}`, position = index + 1
VesselLabel(position) ==
    "VESSEL" \o (IF position < 10 THEN "00" ELSE IF position < 100 THEN "0" ELSE "")
             \o ToString(position)

\* error instanceof Error ? error.message : 'Unknown error'
MutErrorText_Omitted(error) == Undef
errorText(error) ==
    IF error.name \in {"Error", "TypeError", "ApiError"} THEN Str(error.message)
    ELSE Str("Unknown error")

MinOf(S) == CHOOSE i \in S : \A j \in S : i <= j

\* generateMockViolation(vessel), draw being the outcome of its Math.random() calls
generateMockViolation(vessel, draw) ==
    [t |-> "object", n |-> 0, s |-> "",
     vessel_id |-> JsOr(vessel.vessel_id, Str("UNKNOWN")),
     zone_type |-> Str(draw.zone),
     timestamp |-> Str("now"),
     location |-> Pair(vessel.longitude, vessel.latitude),
     severity |-> Str(draw.severity),
     details |-> Str(IF draw.zone = "mpa" THEN "Mock MPA violation"
                     ELSE "Mock EEZ violation")]


IsMpaHigh(r) == r.zone_type = Str("mpa") /\ r.severity = Str("high")
IsEezHigh(r) == r.zone_type = Str("eez") /\ r.severity = Str("high")

\* formatErrorResponse(vessels, error): reading a property of a null vessel
\* throws a TypeError
formatErrorResponse(vessels, error, draws) ==
    IF \E i \in 1..Len(vessels) : vessels[i].t \in {"null", "undefined"}
    THEN Threw(NewTypeError("Cannot read properties of null (reading 'vessel_id')"))
    ELSE LET mockResults ==
                 [i \in 1..Len(vessels) |-> generateMockViolation(vessels[i], draws[i])]
         IN Returned([success |-> FALSE,
                      total_vessels |-> Len(vessels),
                      violations |-> Num(Len(mockResults)),
                      mpa_violations |-> Num(Len(SelectSeq(mockResults, IsMpaHigh))),
                      eez_violations |-> Num(Len(SelectSeq(mockResults, IsEezHigh))),
                      processing_time |-> Str("0.00s"),
                      results |-> mockResults,
                      error |-> errorText(error)])

\* formatAPIResponse(result, vessels)
formatAPIResponse(result, vessels) ==
    IF result.t # "object" \/ ~Truthy(result.results)
    THEN Threw(NewError("Invalid API response format"))
    ELSE IF result.results.t # "array"
    THEN Threw(NewTypeError("result.results.map is not a function"))
    ELSE IF \E i \in 1..Len(result.results.items) :
                result.results.items[i].t \in {"null", "undefined"}
    THEN Threw(NewTypeError("Cannot read properties of null (reading 'vessel_id')"))
    ELSE Returned([success |-> TRUE,
                   total_vessels |-> Len(vessels),
                   violations |-> JsOr(result.violations, Num(0)),
                   mpa_violations |-> JsOr(result.mpa_violations, Num(0)),
                   eez_violations |-> JsOr(result.eez_violations, Num(0)),
                   processing_time |-> JsOr(result.processing_time, Str("0.00s")),
                   results |->
                       [i \in 1..Len(result.results.items) |->
                           LET v == result.results.items[i]
                           IN [t |-> "object", n |-> 0, s |-> "",
                               vessel_id |-> v.vessel_id,
                               zone_type |-> JsOr(v.zone_type, Str("mpa")),
                               timestamp |-> JsOr(v.timestamp, Str("now")),
                               location |-> JsOr(v.location, Pair(Num(0), Num(0))),
                               severity |-> JsOr(v.severity, Str("low")),
                               details |-> JsOr(v.details, Str(""))]],
                   error |-> Undef])

\* the vessel entries the validation of checkZone rejects
rejectedVessel(vessel) ==
    ~Truthy(vessel) \/ ~isValidCoordinate(vessel.latitude, vessel.longitude)

\* checkZone up to its await: the empty-list test and the vessels.map that
\* validates every vessel and builds the request
buildZoneRequest(vessels) ==
    LET bad == {i \in 1..Len(vessels) : rejectedVessel(vessels[i])}
    IN IF Len(vessels) = 0 THEN Threw(NewError("No vessel data to check"))
       ELSE IF bad # {}
       THEN Threw(NewError("Invalid coordinates in vessel data at index "
                           \o ToString(MinOf(bad) - 1)))
       ELSE Returned([i \in 1..Len(vessels) |->
                         [vessel_id |-> JsOr(vessels[i].vessel_id, Str(VesselLabel(i))),
                          latitude |-> ToNumber(vessels[i].latitude),
                          longitude |-> ToNumber(vessels[i].longitude)]])

\* the catch block of checkZone: return formatErrorResponse(vessels, error)
zoneCatch(z, error, draws) ==
    LET res == formatErrorResponse(z.vessels, error, draws)
    IN IF res.threw THEN [z EXCEPT !.pc = "threw", !.thrown = res.error]
       ELSE [z EXCEPT !.pc = "failed", !.out = res.value]

\* return formatAPIResponse(result, vessels), when it does not throw
zoneCompleted(z, result, value) ==
    [z EXCEPT !.pc = "completed", !.response = result, !.out = value]

(***************************************************************************)
(* checkZone, the single-coordinate variant: only the first vessel is sent *)
(* to the service, the results of all vessels are drawn at random.         *)
(***************************************************************************)
\* checkZone up to its await: the empty-list test and the test of data[0]
buildSingleRequest(data) ==
    IF Len(data) = 0 THEN Threw(NewError("No vessel data to check"))
    ELSE IF ~Truthy(data[1]) \/ ~isValidCoordinate(data[1].latitude, data[1].longitude)
    THEN Threw(NewError("Invalid coordinates in vessel data"))
    ELSE Returned([latitude |-> ToNumber(data[1].latitude),
                   longitude |-> ToNumber(data[1].longitude)])

\* one element of mockResults: inMPA is result.is_violation or a draw
mockResult(vessel, position, inMPA, draw) ==
    LET inEEZ == Bool(draw.eez)
        isFishing == Bool(vessel.behavior = Str("fishing") \/ draw.fishing)
    IN [t |-> "object", n |-> 0, s |-> "",
        latitude |-> vessel.latitude,
        longitude |-> vessel.longitude,
        behavior |-> vessel.behavior,
        vessel_id |-> JsOr(vessel.vessel_id, Str(VesselLabel(position))),
        in_mpa |-> inMPA,
        in_eez |-> inEEZ,
        in_port |-> Bool(draw.port),
        illegal_fishing |-> JsAnd(inMPA, isFishing),
        risk_level |-> IF Truthy(JsAnd(inMPA, isFishing)) THEN Str("high")
                       ELSE IF Truthy(JsAnd(inEEZ, isFishing)) THEN Str("medium")
                       ELSE Str("low")]

IsIllegal(r) == Truthy(r.illegal_fishing)
IsMpaIllegal(r) == Truthy(JsAnd(r.in_mpa, r.illegal_fishing))
MutEezIllegal_MpaNotExcluded(r) == Truthy(JsAnd(r.in_eez, r.illegal_fishing))
IsEezOnlyIllegal(r) ==
    Truthy(JsAnd(r.in_eez, r.illegal_fishing)) /\ ~Truthy(r.in_mpa)

\* the object both paths return, the tallies filtered from mockResults
singleResponse(success, error, data, mockResults) ==
    [success |-> success,
     total_vessels |-> Len(data),
     violations |-> Num(Len(SelectSeq(mockResults, IsIllegal))),
     mpa_violations |-> Num(Len(SelectSeq(mockResults, IsMpaIllegal))),
     eez_violations |-> Num(Len(SelectSeq(mockResults, IsEezOnlyIllegal))),
     processing_time |-> Str("0.00s"),
     results |-> mockResults,
     error |-> error]

HasNullVessel(data) == \E i \in 1..Len(data) : data[i].t \in {"null", "undefined"}

\* the catch block: mock results for every vessel; vessel.behavior of a null
\* vessel throws a TypeError out of the catch block
singleCatch(z, error, draws) ==
    IF HasNullVessel(z.vessels)
    THEN [z EXCEPT !.pc = "threw",
                   !.thrown = NewTypeError("Cannot read properties of null (reading 'behavior')")]
    ELSE [z EXCEPT !.pc = "failed",
                   !.out = singleResponse(FALSE, errorText(error), z.vessels,
                              [i \in 1..Len(z.vessels) |->
                                  mockResult(z.vessels[i], i, Bool(draws[i].mpa), draws[i])])]

\* the continuation after await apiClient.checkZoneViolations(request)
singleResponded(z, result, draws) ==
    IF result.t \in {"null", "undefined"}
    THEN singleCatch(z, NewTypeError("Cannot read properties of null (reading 'is_violation')"), draws)
    ELSE IF HasNullVessel(z.vessels)
    THEN singleCatch(z, NewTypeError("Cannot read properties of null (reading 'behavior')"), draws)
    ELSE [z EXCEPT
                !.pc = "completed",
                !.response = result,
                !.out = singleResponse(TRUE, Undef, z.vessels,
                           [i \in 1..Len(z.vessels) |->
                               mockResult(z.vessels[i], i,
                                          IF i = 1 THEN result.is_violation
                                          ELSE Bool(draws[i].mpa),
                                          draws[i])])]

(***************************************************************************)
(* mapApiResponseToLocalFormat (pages/ZoneViolation.tsx)                   *)
(***************************************************************************)
mapApiResponseToLocalFormat(response) ==
    [total_vessels |-> response.total_vessels,
     violations |-> response.violations,
     mpa_violations |-> response.mpa_violations,
     eez_violations |-> response.eez_violations,
     results |->
        [i \in 1..Len(response.results) |->
            LET detail == response.results[i]
            IN [vessel_id |-> detail.vessel_id,
                timestamp |-> detail.timestamp,
                latitude |-> detail.location.at0,
                longitude |-> detail.location.at1,
                behavior |-> JsOr(detail.details, Str("unknown")),
                in_mpa |-> Bool(detail.zone_type = Str("mpa")),
                in_eez |-> Bool(detail.zone_type = Str("eez")),
                in_port |-> Bool(FALSE),
                risk_level |-> detail.severity,
                illegal_fishing |-> Bool(detail.severity = Str("high"))]]]

(***************************************************************************)
(* Specification SpecZone: one checkZone run of either variant, for every  *)
(* vessel list, every answer of the service and every random draw.         *)
(***************************************************************************)
SeqsUpTo(S, k) == UNION {[1..m -> S] : m \in 0..k}

VesselPool ==
    {Vessel(Str("V1"), Num(10), Num(20), Str("fishing")),
     Vessel(Undef, Str("45"), Num(-180), Str("transit")),
     Vessel(Str("V3"), Num(91), Num(0), Str("transit")),
     Null}

SingleVesselPool ==
    {Vessel(Str("V1"), Num(10), Num(20), Str("fishing")),
     Vessel(Undef, Str("abc"), Num(0), Str("transit")),
     Null}

\* the outcomes of the Math.random() calls for one vessel
MockDraws == [zone : {"mpa", "eez"}, severity : {"high", "medium", "low"}]
SingleDraws == [mpa : BOOLEAN, eez : BOOLEAN, fishing : BOOLEAN, port : BOOLEAN]

\* what the service may answer to a zone check
BackendResult(id, zone, location, severity, details) ==
    [t |-> "object", n |-> 0, s |-> "", vessel_id |-> id, zone_type |-> zone,
     timestamp |-> Undef, location |-> location, severity |-> severity,
     details |-> details]

BackendResultPool ==
    {BackendResult(Str("V1"), Str("eez"), Pair(Num(20), Num(10)), Str("high"), Str("inside EEZ")),
     BackendResult(Str("VESSEL002"), Undef, Undef, Undef, Undef)}

BackendTallies ==
    {[violations |-> Undef, mpa |-> Undef, eez |-> Undef],
     [violations |-> Num(0), mpa |-> Num(0), eez |-> Num(0)],
     [violations |-> Num(1), mpa |-> Num(0), eez |-> Num(1)],
     [violations |-> Num(5), mpa |-> Num(2), eez |-> Num(3)]}

ZoneResponse(results, tally) ==
    [t |-> "object", n |-> 0, s |-> "", results |-> results,
     violations |-> tally.violations, mpa_violations |-> tally.mpa,
     eez_violations |-> tally.eez, processing_time |-> Undef]

NoTallies == [violations |-> Undef, mpa |-> Undef, eez |-> Undef]

\* answers formatAPIResponse throws on: no object, no results, results that
\* is no array, a null entry in results
MalformedResponses ==
    {Null, ZoneResponse(Undef, NoTallies), ZoneResponse(Obj("{}"), NoTallies),
     ZoneResponse(Array(<<Null>>), NoTallies)}

ZoneResponses ==
    MalformedResponses
    \cup {ZoneResponse(Array(items), tally) :
            items \in SeqsUpTo(BackendResultPool, MaxResults),
            tally \in BackendTallies}

SingleResponses ==
    {Null} \cup {[t |-> "object", n |-> 0, s |-> "", is_violation |-> v] :
                    v \in {Bool(TRUE), Bool(FALSE), Undef}}

ZoneFailures == {HttpOutcome(500), HttpOutcome(401)}

\* checkZone(vessels) of api/checkZone.ts up to its await
CheckZoneCall ==
    /\ zr.pc = "idle"
    /\ \E vessels \in SeqsUpTo(VesselPool, MaxVessels) :
          LET z == [ZoneIdle EXCEPT !.variant = "batch", !.vessels = vessels]
              req == buildZoneRequest(vessels)
          IN IF req.threw
             THEN /\ \E draws \in [1..Len(vessels) -> MockDraws] :
                        zr' = zoneCatch(z, req.error, draws)
                  /\ rr' = rr
             ELSE /\ zr' = [z EXCEPT !.pc = "requesting", !.request = req.value,
                                       !.requested = TRUE]
                  /\ rr' = retryStart(MAX_RETRIES, INITIAL_RETRY_DELAY)
    /\ UNCHANGED <<cache, now, lastGet, hc, api, ui, fn, par>>

\* the service answers: retryRequest returns and checkZone formats the answer
CheckZoneAttemptSucceeds ==
    /\ zr.pc = "requesting" /\ zr.variant = "batch"
    /\ rr.pc = "calling"
    /\ \E result \in ZoneResponses :
          LET r == retrySettle(rr, OkOutcome(result))
              res == formatAPIResponse(r.value, zr.vessels)
          IN IF res.threw
             THEN \E draws \in [1..Len(zr.vessels) -> MockDraws] :
                     zr' = zoneCatch(zr, res.error, draws)
             ELSE zr' = zoneCompleted(zr, r.value, res.value)
    /\ rr' = RetryIdle
    /\ UNCHANGED <<cache, now, lastGet, hc, api, ui, fn, par>>

\* an attempt fails: retryRequest waits for the next attempt, or throws into
\* the catch block of checkZone
CheckZoneAttemptFails ==
    /\ zr.pc = "requesting" /\ zr.variant = "batch"
    /\ rr.pc = "calling"
    /\ \E o \in ZoneFailures :
          LET r == retrySettle(rr, o)
          IN IF r.pc = "threw"
             THEN /\ \E draws \in [1..Len(zr.vessels) -> MockDraws] :
                        zr' = zoneCatch(zr, r.error, draws)
                  /\ rr' = RetryIdle
             ELSE /\ rr' = r
                  /\ zr' = zr
    /\ UNCHANGED <<cache, now, lastGet, hc, api, ui, fn, par>>

\* checkZone(data) of the single-coordinate variant up to its await
SingleCheckZoneCall ==
    /\ zr.pc = "idle"
    /\ \E data \in SeqsUpTo(SingleVesselPool, MaxVesselsSingle) :
          LET z == [ZoneIdle EXCEPT !.variant = "single", !.vessels = data]
              req == buildSingleRequest(data)
          IN IF req.threw
             THEN /\ \E draws \in [1..Len(data) -> SingleDraws] :
                        zr' = singleCatch(z, req.error, draws)
                  /\ rr' = rr
             ELSE /\ zr' = [z EXCEPT !.pc = "requesting", !.request = <<req.value>>,
                                       !.requested = TRUE]
                  /\ rr' = retryStart(MAX_RETRIES, INITIAL_RETRY_DELAY)
    /\ UNCHANGED <<cache, now, lastGet, hc, api, ui, fn, par>>

SingleAttemptSucceeds ==
    /\ zr.pc = "requesting" /\ zr.variant = "single"
    /\ rr.pc = "calling"
    /\ \E result \in SingleResponses :
       \E draws \in [1..Len(zr.vessels) -> SingleDraws] :
          LET r == retrySettle(rr, OkOutcome(result))
          IN zr' = singleResponded(zr, r.value, draws)
    /\ rr' = RetryIdle
    /\ UNCHANGED <<cache, now, lastGet, hc, api, ui, fn, par>>

SingleAttemptFails ==
    /\ zr.pc = "requesting" /\ zr.variant = "single"
    /\ rr.pc = "calling"
    /\ \E o \in ZoneFailures :
          LET r == retrySettle(rr, o)
          IN IF r.pc = "threw"
             THEN /\ \E draws \in [1..Len(zr.vessels) -> SingleDraws] :
                        zr' = singleCatch(zr, r.error, draws)
                  /\ rr' = RetryIdle
             ELSE /\ rr' = r
                  /\ zr' = zr
    /\ UNCHANGED <<cache, now, lastGet, hc, api, ui, fn, par>>

NextZone ==
    \/ CheckZoneCall
    \/ CheckZoneAttemptSucceeds
    \/ CheckZoneAttemptFails
    \/ SingleCheckZoneCall
    \/ SingleAttemptSucceeds
    \/ SingleAttemptFails
    \/ BackoffElapses

SpecZone == Init /\ [][NextZone]_vars

ZoneReturned == zr.pc \in {"completed", "failed"}

\* the entries of the returned results that are flagged as illegal fishing
FlaggedCount(z) ==
    IF z.variant = "single" THEN Len(SelectSeq(z.out.results, IsIllegal))
    ELSE Len(SelectSeq(mapApiResponseToLocalFormat(z.out).results, IsIllegal))

\* C3: in every result checkZone returns, violations is the number of
\* entries of results flagged as illegal fishing.
C3_ViolationsMatchFlags ==
    ZoneReturned => zr.out.violations = Num(FlaggedCount(zr))

\* the result carries the id of the vessel: its own id, or the id the code
\* gives a vessel without one
BelongsTo(result, vessel, position) ==
    /\ vessel.t = "object"
    /\ result.vessel_id \in {JsOr(vessel.vessel_id, Str(VesselLabel(position))),
                             JsOr(vessel.vessel_id, Str("UNKNOWN"))}

\* C4: for a non-empty vessel list, the returned results are as many as the
\* vessels and the i-th result belongs to the i-th vessel.
C4_ResultsAlignWithInput ==
    (ZoneReturned /\ Len(zr.vessels) > 0) =>
        /\ Len(zr.out.results) = Len(zr.vessels)
        /\ \A i \in 1..Len(zr.vessels) :
              BelongsTo(zr.out.results[i], zr.vessels[i], i)

\* the number of vessels the service answered for
AnsweredCount(z) ==
    IF z.variant = "single" THEN 1 ELSE Len(z.response.results.items)

\* an entry marked as inferred: its details begin with the marker "Mock"
IsInferred(r) ==
    /\ "details" \in DOMAIN r
    /\ r.details \in {Str("Mock MPA violation"), Str("Mock EEZ violation")}

\* C5: when the service answers successfully for k < n of the n vessels,
\* checkZone returns n entries, n - k of them marked as inferred.
C5_PartialResponseReconciled ==
    (zr.pc = "completed" /\ AnsweredCount(zr) < Len(zr.vessels)) =>
        /\ Len(zr.out.results) = Len(zr.vessels)
        /\ Len(SelectSeq(zr.out.results, IsInferred)) = Len(zr.vessels) - AnsweredCount(zr)

\* a vessel that fails isValidCoordinate
FailsValidation(vessel) ==
    vessel.t = "object" /\ ~isValidCoordinate(vessel.latitude, vessel.longitude)

\* C6: when the vessel list is empty or some vessel of it fails
\* isValidCoordinate (every entry of the list being a vessel object), the run
\* makes no remote request and ends Failed, its error carrying the index of
\* an offending vessel.
C6_ValidationBeforeRequest ==
    (/\ zr.pc # "idle"
     /\ ~HasNullVessel(zr.vessels)
     /\ \/ Len(zr.vessels) = 0
        \/ \E i \in 1..Len(zr.vessels) : FailsValidation(zr.vessels[i])) =>
        /\ ~zr.requested
        /\ zr.pc = "failed"
        /\ Len(zr.vessels) > 0 =>
              \E i \in 1..Len(zr.vessels) :
                 /\ FailsValidation(zr.vessels[i])
                 /\ zr.out.error = Str("Invalid coordinates in vessel data at index "
                                       \o ToString(i - 1))

\* C7: a checkZone run never ends by rejecting; it ends Completed with
\* success true or Failed with success false.
C7_AlwaysReturnsResult ==
    /\ zr.pc # "threw"
    /\ zr.pc = "completed" => zr.out.success
    /\ zr.pc = "failed" => ~zr.out.success

\* C8: in every result checkZone returns, error is set if and only if
\* success is false.
C8_ErrorIffNotSuccess ==
    ZoneReturned =>
        /\ zr.out.success <=> zr.out.error = Undef
        /\ ~zr.out.success => (zr.out.error.t = "string" /\ zr.out.error.s # "")

C8_Witness ==
    /\ zr.pc = "failed"
    /\ zr.requested
    /\ zr.variant = "batch"
    /\ ~zr.out.success
    /\ zr.out.error = Str("Server error, please try again later")

\* the entries of the returned results that lie in an MPA, in the EEZ
InMpaEntries(z) ==
    {i \in 1..Len(z.out.results) :
        IF z.variant = "single" THEN Truthy(z.out.results[i].in_mpa)
        ELSE z.out.results[i].zone_type = Str("mpa")}

InEezEntries(z) ==
    {i \in 1..Len(z.out.results) :
        IF z.variant = "single" THEN Truthy(z.out.results[i].in_eez)
        ELSE z.out.results[i].zone_type = Str("eez")}

\* C27: in every result checkZone returns, mpa_violations and eez_violations
\* count two disjoint sets of the result's vessels, the first of vessels in
\* an MPA, the second of vessels in the EEZ: no vessel is counted in both.
C27_TalliesDisjoint ==
    ZoneReturned =>
        \E M \in SUBSET InMpaEntries(zr) :
        \E E \in SUBSET InEezEntries(zr) :
            /\ M \cap E = {}
            /\ zr.out.mpa_violations = Num(Cardinality(M))
            /\ zr.out.eez_violations = Num(Cardinality(E))

\* a run of the batch variant completed on an answer whose tallies are 2 MPA
\* and 3 EEZ violations
C27_Witness ==
    /\ zr.pc = "completed"
    /\ zr.variant = "batch"
    /\ zr.out.mpa_violations = Num(2)
    /\ zr.out.eez_violations = Num(3)

\* C30: in every result the single-coordinate checkZone returns, an entry is
\* flagged illegal_fishing only if it is flagged in_mpa, mpa_violations
\* equals violations and eez_violations is 0.
C30_SingleVariantCountsMpaOnly ==
    (ZoneReturned /\ zr.variant = "single") =>
        /\ \A i \in 1..Len(zr.out.results) :
              Truthy(zr.out.results[i].illegal_fishing) =>
                  Truthy(zr.out.results[i].in_mpa)
        /\ zr.out.mpa_violations = zr.out.violations
        /\ zr.out.eez_violations = Num(0)

\* a run of the single-coordinate variant returned an entry flagged
\* illegal_fishing that is in the EEZ too, on the success path
C30_Witness ==
    /\ zr.pc = "completed"
    /\ zr.variant = "single"
    /\ \E i \in 1..Len(zr.out.results) :
          /\ Truthy(zr.out.results[i].illegal_fishing)
          /\ Truthy(zr.out.results[i].in_eez)

(***************************************************************************)
(* handleZoneCheck of pages/ZoneViolation.tsx: the parsing of csvData into *)
(* vessel rows.                                                            *)
(***************************************************************************)
Toast(variant, title, description) ==
    [variant |-> variant, title |-> title, description |-> description]

ErrorToast(description) == Toast("destructive", "Error", description)

\* headers.indexOf(name), 0 when the name is absent (positions count from 1)
indexOf(headers, name) ==
    LET hits == {i \in 1..Len(headers) : headers[i] = name}
    IN IF hits = {} THEN 0 ELSE CHOOSE h \in hits : \A g \in hits : h <= g

\* the object built by headers.forEach: obj[header] is Number(values[index])
\* for the latitude and longitude columns and values[index] for the others, a
\* later column of the same name overwriting an earlier one.  The model keeps
\* the properties checkZone reads.
rowObject(headers, values) ==
    LET Property(name) ==
            LET cols == {i \in 1..Len(headers) : headers[i] = name}
                last == CHOOSE c \in cols : \A b \in cols : b <= c
            IN IF cols = {} THEN Undef
               ELSE IF name \in {"latitude", "longitude"}
                    THEN StringToNumber(values[last])
               ELSE Str(values[last])
    IN Vessel(Property("vessel_id"), Property("latitude"), Property("longitude"),
              Property("behavior"))

\* the callback of lines.slice(1).map for the line at position lineNum (from
\* 0): the row object, or null after a toast
parseLine(headers, latIndex, lonIndex, line, lineNum) ==
    LET cells == Split(line, ",")
        values == [i \in 1..Len(cells) |-> Trim(cells[i])]
        lat == StringToNumber(values[latIndex])
        lon == StringToNumber(values[lonIndex])
    IN IF Len(values) # Len(headers)
       THEN [row |-> Null,
             toasts |-> <<ErrorToast("Invalid CSV line " \o ToString(lineNum + 2)
                                     \o ": Wrong number of columns")>>]
       ELSE IF IsNaN(lat) \/ IsNaN(lon)
       THEN [row |-> Null,
             toasts |-> <<ErrorToast("Invalid coordinates at line "
                                     \o ToString(lineNum + 2))>>]
       ELSE IF ~Ge(lat, -90) \/ ~Le(lat, 90) \/ ~Ge(lon, -180) \/ ~Le(lon, 180)
       THEN [row |-> Null,
             toasts |-> <<ErrorToast("Coordinates out of range at line "
                                     \o ToString(lineNum + 2))>>]
       ELSE [row |-> rowObject(headers, values), toasts |-> << >>]

RECURSIVE Flatten(_)
Flatten(seqs) == IF seqs = << >> THEN << >> ELSE Head(seqs) \o Flatten(Tail(seqs))

IsRow(item) == item # Null

\* "Parse CSV data" of handleZoneCheck: how the block ends ("parsed": data is
\* not empty; "returned": it returned after a toast; "threw": it threw), the
\* rows kept and the toasts shown
parseCsvData(csvData) ==
    LET lines == Split(Trim(csvData), "\n")
        cols == Split(lines[1], ",")
        headers == [i \in 1..Len(cols) |-> toLowerCase(Trim(cols[i]))]
        latIndex == indexOf(headers, "latitude")
        lonIndex == indexOf(headers, "longitude")
        parsed == [i \in 1..(Len(lines) - 1) |->
                      parseLine(headers, latIndex, lonIndex, lines[i + 1], i - 1)]
        data == SelectSeq([i \in 1..Len(parsed) |-> parsed[i].row], IsRow)
        toasts == Flatten([i \in 1..Len(parsed) |-> parsed[i].toasts])
    IN IF Len(lines) < 2
       THEN [end |-> "threw", data |-> << >>, toasts |-> << >>,
             error |-> NewError("CSV file is empty or contains only headers")]
       ELSE IF latIndex = 0 \/ lonIndex = 0
       THEN [end |-> "returned", data |-> << >>, error |-> NoError,
             toasts |-> <<ErrorToast("CSV must contain 'latitude' and 'longitude' columns")>>]
       ELSE IF Len(data) = 0
       THEN [end |-> "returned", data |-> << >>, error |-> NoError,
             toasts |-> Append(toasts, ErrorToast("No valid vessel data found in CSV"))]
       ELSE [end |-> "parsed", data |-> data, toasts |-> toasts, error |-> NoError]

(***************************************************************************)
(* processVesselData of pages/PredictionPage.tsx: "Transform and validate  *)
(* the data", applied to the rows the fetch produced.                      *)
(***************************************************************************)
AisRow(lat, latitude, lon, longitude, mmsi, name, speed) ==
    [t |-> "object", n |-> 0, s |-> "", LAT |-> lat, LATITUDE |-> latitude,
     LON |-> lon, LONGITUDE |-> longitude, MMSI |-> mmsi, VESSEL_NAME |-> name,
     SPEED |-> speed]

\* a ?? b
Nullish(a, b) == IF a.t \in {"undefined", "null"} THEN b ELSE a

\* String(v) for a value that is not an object
JsString(v) ==
    CASE v.t = "undefined" -> "undefined"
      [] v.t = "null" -> "null"
      [] v.t = "number" ->
            IF IsNaN(v) THEN "NaN"
            ELSE IF v.s = "Infinity" THEN (IF v.n > 0 THEN "Infinity" ELSE "-Infinity")
            ELSE ToString(v.n)
      [] v.t = "boolean" -> IF v.n = 1 THEN "true" ELSE "false"
      [] v.t = "string" -> v.s
      [] OTHER -> "[object Object]"

\* v?.toString()
optToString(v) == IF v.t \in {"undefined", "null"} THEN Undef ELSE Str(JsString(v))

\* determineBehavior(data); the speeds of the model are whole numbers, for
\* which speed < 0.5 is speed < 1
determineBehavior(data) ==
    LET speed == ToNumber(data.SPEED)
    IN IF IsNaN(speed) THEN "unknown"
       ELSE IF ~Ge(speed, 1) THEN "stopped"
       ELSE IF ~Ge(speed, 3) THEN "fishing"
       ELSE IF ~Ge(speed, 8) THEN "maneuvering"
       ELSE "transit"

\* the callback of data.map: the standardized vessel, or null for a row whose
\* coordinates are rejected (the model keeps vessel_id, latitude, longitude,
\* speed and behavior; the other properties are copies of the row's)
standardizeRow(row) ==
    LET latitude == ToNumber(Nullish(row.LAT, row.LATITUDE))
        longitude == ToNumber(Nullish(row.LON, row.LONGITUDE))
    IN IF \/ IsNaN(latitude) \/ IsNaN(longitude)
          \/ ~Ge(latitude, -90) \/ ~Le(latitude, 90)
          \/ ~Ge(longitude, -180) \/ ~Le(longitude, 180)
       THEN Null
       ELSE [t |-> "object", n |-> 0, s |-> "",
             vessel_id |-> JsOr(optToString(row.MMSI), optToString(row.VESSEL_NAME)),
             latitude |-> latitude,
             longitude |-> longitude,
             speed |-> JsOr(ToNumber(row.SPEED), Undef),
             behavior |-> Str(determineBehavior(row))]

\* data.map(...).filter(vessel => vessel !== null) inside the try block: a
\* null row makes the callback throw a TypeError, which the catch block
\* rethrows as an Error
normalizeRows(data) ==
    IF \E i \in 1..Len(data) : data[i] = Null
    THEN Threw(NewError("Failed to process vessel data: Cannot read properties of null (reading 'LAT')"))
    ELSE Returned(Array(SelectSeq([i \in 1..Len(data) |-> standardizeRow(data[i])], IsRow)))

(***************************************************************************)
(* Specification SpecNormalize: the two normalizations of parsed rows,     *)
(* each applied to one input.                                              *)
(***************************************************************************)
RECURSIVE JoinLines(_)
JoinLines(lines) ==
    IF Len(lines) = 1 THEN lines[1]
    ELSE lines[1] \o "\n" \o JoinLines(Tail(lines))

CsvLines2 == {"55,12", "999,12", ",12", "abc,12", "55", " -90 , 180 "}
CsvLines3 == {"V1,55,12", "V2,91,0", "V3,10,", "V4,10,20,30"}

CsvTexts ==
    {JoinLines(<<"latitude,longitude">> \o rows) :
        rows \in SeqsUpTo(CsvLines2, MaxCsvRows)}
    \cup {JoinLines(<<"Vessel_ID, LATITUDE ,longitude">> \o rows) \o "\n" :
             rows \in SeqsUpTo(CsvLines3, MaxCsvRows) \ {<< >>}}
    \cup {"lat,lon\n55,12"}

AisRows ==
    {AisRow(Num(55), Undef, Num(12), Undef, Num(219000001), Undef, Num(2)),
     AisRow(Undef, Str("45"), Undef, Str("-180"), Undef, Str("Nordic"), Str("12")),
     AisRow(Num(999), Undef, Num(12), Undef, Num(7), Undef, Num(0)),
     AisRow(Null, Null, Num(12), Undef, Num(8), Undef, Undef),
     AisRow(Str(""), Num(10), Num(12), Undef, Undef, Undef, Num(5)),
     AisRow(Undef, Undef, Num(12), Undef, Num(9), Undef, Num(1)),
     AisRow(Str("abc"), Num(10), Num(12), Undef, Num(10), Undef, Num(9)),
     Null}

ParseCsvData ==
    /\ fn = NoCall
    /\ \E csvData \in CsvTexts :
          fn' = [op |-> "parseCsvData", input |-> Str(csvData),
                 output |-> parseCsvData(csvData)]
    /\ UNCHANGED <<rr, cache, now, lastGet, hc, zr, api, ui, par>>

\* rows with valid coordinates: every kind of SPEED value, without and with
\* an explicit behavior property
SpeedValues ==
    {Undef, Null, Str(""), Str("abc"), Str("12"), Num(-1), Num(0), Num(1),
     Num(2), Num(3), Num(7), Num(8), Num(20)}

SpeedRows ==
    {AisRow(Num(55), Undef, Num(12), Undef, Num(1), Undef, speed) :
        speed \in SpeedValues}
    \cup {[t |-> "object", n |-> 0, s |-> "", LAT |-> Num(55), LATITUDE |-> Undef,
           LON |-> Num(12), LONGITUDE |-> Undef, MMSI |-> Num(2),
           VESSEL_NAME |-> Undef, SPEED |-> speed, behavior |-> Str(b)] :
              speed \in {Undef, Num(2), Num(20)}, b \in {"transit", "fishing"}}

NormalizeRows ==
    /\ fn = NoCall
    /\ \E data \in SeqsUpTo(AisRows, MaxAisRows) \cup {<<row>> : row \in SpeedRows} :
          fn' = [op |-> "normalizeRows", input |-> Array(data),
                 output |-> normalizeRows(data)]
    /\ UNCHANGED <<rr, cache, now, lastGet, hc, zr, api, ui, par>>

NextNormalize == ParseCsvData \/ NormalizeRows

SpecNormalize == Init /\ [][NextNormalize]_vars

\* a value that parses as a finite number: a finite number, or a text that
\* is a numeric literal (the empty text is none)
IsNumeral(text) ==
    LET t == Trim(text)
    IN \/ IsDigits(t)
       \/ Len(t) > 1 /\ CharAt(t, 1) \in {"-", "+"} /\ IsDigits(SubSeq(t, 2, Len(t)))

ParsesAsFiniteNumber(v) ==
    \/ v.t = "number" /\ v.s = ""
    \/ v.t = "string" /\ IsNumeral(v.s)

NumberParsed(v) == IF v.t = "number" THEN v.n ELSE StringToNumber(v.s).n

\* the coordinates a valid row stands for: both values parse as finite
\* numbers within the ranges
CoordinatesValid(lat, lon) ==
    /\ ParsesAsFiniteNumber(lat)
    /\ ParsesAsFiniteNumber(lon)
    /\ NumberParsed(lat) >= -90 /\ NumberParsed(lat) <= 90
    /\ NumberParsed(lon) >= -180 /\ NumberParsed(lon) <= 180

IsValidPair(p) == p # Null

\* the (latitude, longitude) of the valid rows among the data lines of a CSV
\* text whose header names both columns, in input order
ExpectedCsvRows(csvData) ==
    LET lines == Split(Trim(csvData), "\n")
        cols == Split(lines[1], ",")
        headers == [i \in 1..Len(cols) |-> toLowerCase(Trim(cols[i]))]
        latIndex == indexOf(headers, "latitude")
        lonIndex == indexOf(headers, "longitude")
        PairOf(line) ==
            LET cells == Split(line, ",")
            IN IF Len(cells) = Len(headers)
                  /\ CoordinatesValid(Str(cells[latIndex]), Str(cells[lonIndex]))
               THEN Pair(Num(NumberParsed(Str(cells[latIndex]))),
                         Num(NumberParsed(Str(cells[lonIndex]))))
               ELSE Null
    IN SelectSeq([i \in 1..(Len(lines) - 1) |-> PairOf(lines[i + 1])], IsValidPair)

\* the same for the rows given to processVesselData's normalization
ExpectedAisRows(data) ==
    LET PairOf(row) ==
            IF row = Null THEN Null
            ELSE LET lat == Nullish(row.LAT, row.LATITUDE)
                     lon == Nullish(row.LON, row.LONGITUDE)
                 IN IF CoordinatesValid(lat, lon)
                    THEN Pair(Num(NumberParsed(lat)), Num(NumberParsed(lon)))
                    ELSE Null
    IN SelectSeq([i \in 1..Len(data) |-> PairOf(data[i])], IsValidPair)

PositionsOf(vessels) ==
    [i \in 1..Len(vessels) |-> Pair(vessels[i].latitude, vessels[i].longitude)]

\* C15: normalizing a batch of parsed rows (the CSV parsing of
\* handleZoneCheck, the transformation of processVesselData) returns exactly
\* the rows whose coordinates are valid, in input order: a row with a missing,
\* non-numeric or out-of-range coordinate is dropped and the rows after it are
\* still processed.
C15_NormalizationKeepsValidRows ==
    /\ (fn.op = "parseCsvData" /\ fn.output.end # "threw"
            /\ ~(fn.output.end = "returned" /\ Len(fn.output.toasts) = 1
                    /\ fn.output.toasts[1].description
                          = "CSV must contain 'latitude' and 'longitude' columns")) =>
           PositionsOf(fn.output.data) = ExpectedCsvRows(fn.input.s)
    /\ fn.op = "normalizeRows" =>
           /\ ~fn.output.threw
           /\ PositionsOf(fn.output.value.items) = ExpectedAisRows(fn.input.items)

\* the CSV text of a header, the row (55, 12) and the row (999, 12) was parsed
C15_Witness ==
    /\ fn.op = "parseCsvData"
    /\ fn.input = Str("latitude,longitude\n55,12\n999,12")
    /\ Len(fn.output.data) = 1
    /\ fn.output.data[1].latitude = Num(55)

\* the behavior the claim gives a row: its behavior property when it has
\* one; else unknown for a missing or non-numeric speed, and the class of
\* the speed (a whole number in the model: speed < 0.5 is speed <= 0)
ExpectedBehavior(row) ==
    IF "behavior" \in DOMAIN row THEN row.behavior
    ELSE IF ~ParsesAsFiniteNumber(row.SPEED) THEN Str("unknown")
    ELSE IF NumberParsed(row.SPEED) <= 0 THEN Str("stopped")
    ELSE IF NumberParsed(row.SPEED) < 3 THEN Str("fishing")
    ELSE IF NumberParsed(row.SPEED) < 8 THEN Str("maneuvering")
    ELSE Str("transit")

\* C26: when processVesselData keeps every row of its input, the behavior of
\* the i-th vessel is the behavior property of the i-th row when the row has
\* one, and else the class of the row's speed (stopped, fishing, maneuvering,
\* transit; unknown for a missing or non-numeric speed).
C26_BehaviorFromFieldOrSpeed ==
    (/\ fn.op = "normalizeRows"
     /\ ~fn.output.threw
     /\ Len(fn.output.value.items) = Len(fn.input.items)) =>
        \A i \in 1..Len(fn.input.items) :
            fn.output.value.items[i].behavior = ExpectedBehavior(fn.input.items[i])

\* a row with speed 20 and the explicit behavior fishing was normalized
C26_Witness ==
    /\ fn.op = "normalizeRows"
    /\ Len(fn.input.items) = 1
    /\ "behavior" \in DOMAIN fn.input.items[1]
    /\ fn.input.items[1].behavior = Str("fishing")
    /\ fn.input.items[1].SPEED = Num(20)
    /\ Len(fn.output.value.items) = 1

(***************************************************************************)
(* convertToCSV of utils/downloadUtils, and the round trip of an exported  *)
(* CSV text through the parsing of handleZoneCheck.  An object is the      *)
(* sequence of its properties, in the order Object.keys lists them.        *)
(***************************************************************************)
Property(key, value) == [key |-> key, value |-> value]

\* obj[header], undefined when the object has no such property
propertyOf(obj, header) ==
    LET at == {i \in 1..Len(obj) : obj[i].key = header}
    IN IF at = {} THEN Undef ELSE obj[CHOOSE i \in at : TRUE].value

\* JSON.stringify(null)
jsonStringifyNull == "null"

\* text.replace(/"/g, '""')
RECURSIVE doubleQuotes(_)
doubleQuotes(text) ==
    IF text = "" THEN ""
    ELSE (IF CharAt(text, 1) = "\"" THEN "\"\"" ELSE CharAt(text, 1))
         \o doubleQuotes(SubSeq(text, 2, Len(text)))

\* the cell convertToCSV writes for a value (typeof null is 'object'; the
\* other values of the model's records are primitives)
csvCell(value) ==
    LET cellValue == IF value.t = "null" THEN jsonStringifyNull ELSE JsString(value)
    IN "\"" \o doubleQuotes(cellValue) \o "\""

RECURSIVE JoinWith(_, _)
JoinWith(texts, sep) ==
    IF Len(texts) = 0 THEN ""
    ELSE IF Len(texts) = 1 THEN texts[1]
    ELSE texts[1] \o sep \o JoinWith(Tail(texts), sep)

convertToCSV(data) ==
    IF Len(data) = 0 THEN ""
    ELSE LET headers == [i \in 1..Len(data[1]) |-> data[1][i].key]
             rows == [r \in 1..Len(data) |->
                         JoinWith([h \in 1..Len(headers) |->
                                      csvCell(propertyOf(data[r], headers[h]))], ",")]
         IN JoinWith(<<JoinWith(headers, ",")>> \o rows, "\n")

\* handleZoneCheck up to the end of its parsing, run on csvData: the rows it
\* would hand to checkZone (none when it returns or throws before)
parsedVessels(csvData) ==
    IF Trim(csvData) = "" THEN << >>
    ELSE parseCsvData(csvData).data

(***************************************************************************)
(* Specification SpecCsv: a result list is exported with convertToCSV and  *)
(* the text is given back to handleZoneCheck as csvData.                   *)
(***************************************************************************)
\* a LocalViolationDetail as the object mapApiResponseToLocalFormat builds
localDetailObject(detail) ==
    <<Property("vessel_id", detail.vessel_id),
      Property("timestamp", detail.timestamp),
      Property("latitude", detail.latitude),
      Property("longitude", detail.longitude),
      Property("behavior", detail.behavior),
      Property("in_mpa", detail.in_mpa),
      Property("in_eez", detail.in_eez),
      Property("in_port", detail.in_port),
      Property("risk_level", detail.risk_level),
      Property("illegal_fishing", detail.illegal_fishing)>>

ExportVessels ==
    {Vessel(Str("V1"), Num(10), Num(20), Str("fishing")),
     Vessel(Undef, Num(-90), Num(-180), Str("transit")),
     Vessel(Str("MMSI 7"), Num(0), Num(0), Undef)}

ExportDraws == {[zone |-> "mpa", severity |-> "high"], [zone |-> "eez", severity |-> "low"]}

\* the records of zoneResults.results after a zone check of one vessel
ExportPool ==
    {localDetailObject(
        mapApiResponseToLocalFormat(
            [total_vessels |-> Num(1), violations |-> Num(1), mpa_violations |-> Num(0),
             eez_violations |-> Num(0),
             results |-> <<generateMockViolation(v, d)>>]).results[1]) :
        v \in ExportVessels, d \in ExportDraws}

ExportAndParse ==
    /\ fn = NoCall
    /\ \E data \in SeqsUpTo(ExportPool, MaxExport) :
          LET csv == convertToCSV(data)
          IN fn' = [op |-> "roundTrip", input |-> Array(data),
                    output |-> [t |-> "object", n |-> 0, s |-> csv,
                                vessels |-> parsedVessels(csv)]]
    /\ UNCHANGED <<rr, cache, now, lastGet, hc, zr, api, ui, par>>

NextCsv == ExportAndParse

SpecCsv == Init /\ [][NextCsv]_vars

\* C19: a result list serialized with convertToCSV and parsed back as vessel
\* input gives one row per result, in order, with the result's vessel id,
\* latitude and longitude.
C19_CsvRoundTrip ==
    fn.op = "roundTrip" =>
        LET results == fn.input.items
            vessels == fn.output.vessels
        IN /\ Len(vessels) = Len(results)
           /\ \A i \in 1..Len(results) :
                 /\ vessels[i].vessel_id = propertyOf(results[i], "vessel_id")
                 /\ vessels[i].latitude = propertyOf(results[i], "latitude")
                 /\ vessels[i].longitude = propertyOf(results[i], "longitude")

\* a list of two results was exported and parsed back
C19_Witness ==
    /\ fn.op = "roundTrip"
    /\ Len(fn.input.items) = 2
    /\ fn.output.s # ""

(***************************************************************************)
(* enhancedApiClient: the operations of the request layer.  A call is      *)
(* [op, a, b]: a is the vessel id of analyzeVessel, the url of fetchCSV,   *)
(* the request of the other operations; b is the data of analyzeVessel.    *)
(***************************************************************************)
ApiCallOf(op, a, b) == [op |-> op, a |-> a, b |-> b]

CachedOps == {"healthCheck", "analyzeVessel", "fetchCSV"}
UncachedOps == {"predictBehavior", "checkZoneViolations", "batchAnalyze", "uploadAISData"}

\* const cacheKey = ...
cacheKeyOf(call) ==
    CASE call.op = "healthCheck" -> HEALTH_KEY
      [] call.op = "analyzeVessel" -> "vessel-analysis-" \o call.a
      [] call.op = "fetchCSV" -> "csv-" \o call.a

\* the ttl given to apiCache.set (fetchCSV gives none: the default)
ttlOf(call) == IF call.op = "healthCheck" THEN HEALTH_TTL ELSE CACHE_TTL

\* validateVesselData(data)
MutValidate_AcceptsAnyArray(data) == data.t = "array"
validateVesselData(data) ==
    /\ data.t = "array"
    /\ \A i \in 1..Len(data.items) :
          LET vessel == data.items[i]
          IN /\ Truthy(vessel)
             /\ vessel.latitude.t = "number"
             /\ vessel.longitude.t = "number"
             /\ Ge(vessel.latitude, -90)
             /\ Le(vessel.latitude, 90)
             /\ Ge(vessel.longitude, -180)
             /\ Le(vessel.longitude, 180)

\* the body of a fetch-csv response
CsvBody(csv_data) == [t |-> "object", n |-> 0, s |-> "", csv_data |-> csv_data]

\* what an operation does with the value retryRequest returned: the value it
\* returns, or the error it throws; store says that it called apiCache.set.
\* For fetchCSV the value is the response, body its data.
afterRequest(call, body) ==
    IF call.op # "fetchCSV"
    THEN [threw |-> FALSE, error |-> NoError, value |-> body,
          store |-> call.op \in CachedOps]
    ELSE IF body.t \in {"undefined", "null"}
    THEN [threw |-> TRUE, value |-> Undef, store |-> FALSE,
          error |-> NewTypeError("Cannot read properties of null (reading 'csv_data')")]
    ELSE IF ~validateVesselData(body.csv_data)
    THEN [threw |-> TRUE, value |-> Undef, store |-> FALSE,
          error |-> NewApiError("Invalid vessel data format in CSV", 400,
                                "INVALID_DATA_FORMAT",
                                "Please ensure the CSV file contains required vessel data fields in the correct format")]
    ELSE [threw |-> FALSE, error |-> NoError, value |-> body.csv_data, store |-> TRUE]

\* a call that ended
ApiEntry(call, ok, served, value, error, attempts, body, stored) ==
    [call |-> call, ok |-> ok, served |-> served, value |-> value, error |-> error,
     attempts |-> attempts, body |-> body, stored |-> stored]

apiCallEnds(a, entry) ==
    [a EXCEPT !.pc = "idle", !.call = NoApiCall, !.last = entry]

(***************************************************************************)
(* Specification SpecClient: one caller makes enhancedApiClient calls one  *)
(* after the other, the clock advances, clearCache may be called.          *)
(***************************************************************************)
ApiCalls ==
    {ApiCallOf("healthCheck", "", "")}
    \cup {ApiCallOf("analyzeVessel", "v1", "d1"), ApiCallOf("analyzeVessel", "v1", "d2"),
          ApiCallOf("analyzeVessel", "v2", "d1")}
    \cup {ApiCallOf("fetchCSV", url, "") : url \in {"u1", "u2"}}
    \cup {ApiCallOf(op, "request", "") : op \in UncachedOps}

CsvRowsValid == Array(<<Vessel(Str("V1"), Num(10), Num(20), Str("fishing"))>>)
CsvRowsOneInvalid ==
    Array(<<Vessel(Str("V1"), Num(10), Num(20), Str("fishing")),
            Vessel(Str("V2"), Num(91), Num(0), Str("transit"))>>)
CsvRowsOneText == Array(<<Vessel(Str("V4"), Str("45"), Num(0), Str("transit"))>>)

\* the values the service answers an operation with
ApiResponses(op) ==
    CASE op = "healthCheck" -> {Obj("healthy"), Str("")}
      [] op = "analyzeVessel" -> {Obj("analysis-1"), Obj("analysis-2")}
      [] op = "fetchCSV" ->
            {CsvBody(CsvRowsValid), CsvBody(CsvRowsOneInvalid), CsvBody(CsvRowsOneText),
             Null}
      [] OTHER -> {Obj("done")}

ApiFailures ==
    {HttpOutcome(500), HttpOutcomeWithBody(400, "latitude out of range", "BAD_INPUT"),
     NoResponseOutcome("timeout")}

\* an operation up to its await: the cached operations return a truthy
\* cached value, otherwise the request is issued through retryRequest
ApiCall ==
    /\ api.pc = "idle"
    /\ rr.pc = "idle"
    /\ api.calls < MaxApiCalls
    /\ \E call \in ApiCalls :
          LET started == [api EXCEPT !.calls = @ + 1]
              got == cacheGet(cache, cacheKeyOf(call), now)
          IN IF call.op \in CachedOps
             THEN /\ cache' = got.cache
                  /\ lastGet' = [key |-> cacheKeyOf(call), value |-> got.value,
                                 branch |-> got.branch, seq |-> lastGet.seq + 1]
                  /\ IF servedFromCache(got.value)
                     THEN /\ api' = apiCallEnds(started,
                                       ApiEntry(call, TRUE, TRUE, got.value, NoError, 0,
                                                Undef, FALSE))
                          /\ rr' = rr
                     ELSE /\ api' = [started EXCEPT !.pc = "requesting", !.call = call]
                          /\ rr' = retryStart(MAX_RETRIES, INITIAL_RETRY_DELAY)
             ELSE /\ api' = [started EXCEPT !.pc = "requesting", !.call = call]
                  /\ rr' = retryStart(MAX_RETRIES, INITIAL_RETRY_DELAY)
                  /\ UNCHANGED <<cache, lastGet>>
    /\ UNCHANGED <<now, hc, zr, ui, fn, par>>

\* an attempt resolves: retryRequest returns and the operation goes on to its
\* end (fetchCSV validates; the cached operations store what they return)
ApiAttemptSucceeds ==
    /\ api.pc = "requesting"
    /\ rr.pc = "calling"
    /\ \E body \in ApiResponses(api.call.op) :
          LET r == retrySettle(rr, OkOutcome(body))
              done == afterRequest(api.call, r.value)
          IN /\ cache' = IF done.store
                         THEN cacheSet(cache, cacheKeyOf(api.call), done.value,
                                       ttlOf(api.call), now)
                         ELSE cache
             /\ api' = apiCallEnds(
                          [api EXCEPT !.origin = IF done.store
                                                 THEN (cacheKeyOf(api.call) :> api.call) @@ @
                                                 ELSE @],
                          ApiEntry(api.call, ~done.threw, FALSE, done.value, done.error,
                                   r.attempts, body, done.store))
    /\ rr' = RetryIdle
    /\ UNCHANGED <<now, lastGet, hc, zr, ui, fn, par>>

\* an attempt fails: retryRequest waits for the next attempt, or throws and
\* the operation rejects with its error
ApiAttemptFails ==
    /\ api.pc = "requesting"
    /\ rr.pc = "calling"
    /\ \E o \in ApiFailures :
          LET r == retrySettle(rr, o)
          IN IF r.pc = "threw"
             THEN /\ api' = apiCallEnds(api, ApiEntry(api.call, FALSE, FALSE, Undef, r.error,
                                                     r.attempts, Undef, FALSE))
                  /\ rr' = RetryIdle
             ELSE /\ rr' = r
                  /\ api' = api
    /\ UNCHANGED <<cache, now, lastGet, hc, zr, ui, fn, par>>

NextClient ==
    \/ ApiCall
    \/ ApiAttemptSucceeds
    \/ ApiAttemptFails
    \/ BackoffElapses
    \/ ClearCache
    \/ ClockAdvances

SpecClient == Init /\ [][NextClient]_vars

\* C11: a value served from the cache goes to a call with the same operation
\* and the same parameters (for analyzeVessel the vessel id and the data) as
\* the call whose response stored it.
C11_CacheServesSameCall ==
    api.last.served =>
        /\ cacheKeyOf(api.last.call) \in DOMAIN api.origin
        /\ api.origin[cacheKeyOf(api.last.call)] = api.last.call

\* a fetchCSV call was served the rows an earlier call for the same url stored
C11_Witness ==
    /\ api.last.served
    /\ api.last.call.op = "fetchCSV"
    /\ api.last.value = CsvRowsValid

\* a row of csv_data that fails coordinate validation
RowFailsValidation(row) ==
    row = Null \/ ~isValidCoordinate(row.latitude, row.longitude)

HasInvalidRow(body) ==
    /\ body.t = "object"
    /\ body.csv_data.t = "array"
    /\ \E i \in 1..Len(body.csv_data.items) : RowFailsValidation(body.csv_data.items[i])

\* C12: when a row of the csv_data answered to fetchCSV fails coordinate
\* validation, the call ends at once with the ApiError of code
\* INVALID_DATA_FORMAT: it returns no row, stores nothing under the url's key,
\* leaves the cache as it was and makes no further attempt.
C12_InvalidRowFailsFetch ==
    [][(/\ api.pc = "requesting"
        /\ api.call.op = "fetchCSV"
        /\ api'.pc = "idle"
        /\ HasInvalidRow(api'.last.body)) =>
           /\ ~api'.last.ok
           /\ api'.last.value = Undef
           /\ api'.last.error.name = "ApiError"
           /\ api'.last.error.code = "INVALID_DATA_FORMAT"
           /\ cache' = cache
           /\ cacheKeyOf(api.call) \notin DOMAIN cache'
           /\ rr'.pc = "idle"
           /\ api'.last.attempts = rr.attempts]_vars

C12_Witness ==
    /\ api.last.call.op = "fetchCSV"
    /\ api.last.body = CsvBody(CsvRowsOneInvalid)
    /\ api.last.attempts = 2
    /\ api.last.error.code = "INVALID_DATA_FORMAT"

\* C14: every failure an operation of the request layer surfaces is an
\* ApiError that carries a status code, a machine code, a message and a
\* non-empty suggestion chosen by the status (429: wait and retry, 5xx: try
\* later or contact support).
C14_FailuresAreTypedErrors ==
    (api.last.call.op # "" /\ ~api.last.ok) =>
        LET error == api.last.error
        IN /\ error.name = "ApiError"
           /\ error.status # StatusUndefined
           /\ error.code # ""
           /\ error.message # ""
           /\ error.suggestion # ""
           /\ error.status = 429 => error.suggestion = "Please wait a moment and try again"
           /\ error.status >= 500 =>
                 error.suggestion \in
                    {"This is a server error. Please try again later or contact support if the problem persists",
                     "Please try again or contact support if the problem persists"}

\* a call failed after four attempts with the error of a 500 answer
C14_Witness ==
    /\ ~api.last.ok
    /\ api.last.attempts = 4
    /\ api.last.error.status = 500

\* the steps that change the cache: a cached operation that succeeded stores
\* its response; clearCache empties the cache; a cached operation that reads
\* the expired entry of its own key removes it
StoreStep ==
    /\ api.pc = "requesting"
    /\ api'.pc = "idle"
    /\ api.call.op \in CachedOps
    /\ api'.last.ok
    /\ cache' = cacheSet(cache, cacheKeyOf(api.call), api'.last.value, ttlOf(api.call), now)

ClearStep == api' = api /\ rr' = rr /\ cache' = EmptyCache

EvictStep ==
    /\ api.pc = "idle"
    /\ api'.pc = "requesting"
    /\ api'.call.op \in CachedOps
    /\ LET key == cacheKeyOf(api'.call)
       IN /\ key \in DOMAIN cache
          /\ now > cache[key].timestamp
          /\ cache' = [k \in DOMAIN cache \ {key} |-> cache[k]]

\* a step of an operation that is not cached
UncachedStep ==
    /\ api' # api \/ rr' # rr
    /\ api.call.op \in UncachedOps \/ api'.call.op \in UncachedOps

\* a cached operation ends in failure
CachedCallFails ==
    /\ api.pc = "requesting"
    /\ api'.pc = "idle"
    /\ api.call.op \in CachedOps
    /\ ~api'.last.ok

\* C20 as stated: the cache changes only through a successful healthCheck,
\* analyzeVessel or fetchCSV or through clearCache; the operations that are
\* not cached neither read nor write it; a cached operation that fails has
\* left every cache entry as it was, from its call to its failure.
C20_CacheFrameAsStated ==
    [][/\ cache' # cache => (StoreStep \/ ClearStep \/ EvictStep)
       /\ UncachedStep => (cache' = cache /\ lastGet' = lastGet)
       /\ CachedCallFails => (cache' = cache /\ lastGet.branch # "expired")]_vars

\* C20, amended: as above, except that a cached operation, failing or not,
\* removes the expired entry under its own key when it reads it; a cached
\* operation that fails leaves every other entry as it was.
C20_CacheFrame ==
    [][/\ cache' # cache => (StoreStep \/ ClearStep \/ EvictStep)
       /\ UncachedStep => (cache' = cache /\ lastGet' = lastGet)
       /\ CachedCallFails => cache' = cache]_vars

\* a fetchCSV call failed in validation while the cache held an entry
C20_Witness ==
    /\ ~api.last.ok
    /\ api.last.call.op = "fetchCSV"
    /\ api.last.error.code = "INVALID_DATA_FORMAT"
    /\ DOMAIN cache # {}

(***************************************************************************)
(* MapView (components/MapView.tsx): the vessels it keeps for the map.     *)
(***************************************************************************)
keptOnMap(vessel) ==
    /\ vessel.latitude.t # "undefined"
    /\ vessel.longitude.t # "undefined"
    /\ ~IsNaN(ToNumber(vessel.latitude))
    /\ ~IsNaN(ToNumber(vessel.longitude))
    /\ Ge(ToNumber(vessel.latitude), -90)
    /\ Le(ToNumber(vessel.latitude), 90)
    /\ Ge(ToNumber(vessel.longitude), -180)
    /\ Le(ToNumber(vessel.longitude), 180)

validVessels(vessels) == SelectSeq(vessels, keptOnMap)

(***************************************************************************)
(* Specification SpecPage: handleZoneCheck runs of the ZoneViolation page, *)
(* one after the other, on every text of csvData, checkZone answering in   *)
(* every way, and the export and the map being handed zoneResults.results. *)
(***************************************************************************)
PageCsvTexts ==
    {"", "  ",
     "latitude,longitude",
     "lat,lon\n1,2",
     "latitude,longitude\nabc,1",
     "vessel_id,latitude,longitude\nV1,10,120",
     "vessel_id,latitude,longitude\nV1,55,12\nV2,-20,-170",
     "vessel_id,latitude,longitude\nV1,10,120\nV2,91,0"}

SuccessToast == Toast("default", "Success", "Zone analysis completed!")
CatchToast == ErrorToast("Failed to analyze zones. Displaying mock data.")

\* the catch and finally blocks of handleZoneCheck for an error that has no
\* results property
MutPageCaught_LoadingKept(p, shown) ==
    [p EXCEPT !.pc = "done", !.outcome = "caught",
              !.toasts = shown \o <<CatchToast>>]
pageCaught(p, shown) ==
    [p EXCEPT !.pc = "done", !.loading = FALSE, !.outcome = "caught",
              !.toasts = shown \o <<CatchToast>>]

\* handleZoneCheck from the end of its parsing to await checkZone(data), or
\* to its end when the parsing threw or returned; p is the page after
\* setLoading(true)
MutPageParsed_ReturnClearsResults(p, parsed) ==
    IF parsed.end = "threw" THEN pageCaught(p, parsed.toasts)
    ELSE IF parsed.end = "returned"
    THEN [p EXCEPT !.pc = "done", !.loading = FALSE, !.outcome = "returned",
                   !.zoneResults = Null, !.toasts = parsed.toasts]
    ELSE [p EXCEPT !.pc = "awaiting", !.data = parsed.data,
                   !.toasts = parsed.toasts]
pageParsed(p, parsed) ==
    IF parsed.end = "threw" THEN pageCaught(p, parsed.toasts)
    ELSE IF parsed.end = "returned"
    THEN [p EXCEPT !.pc = "done", !.loading = FALSE, !.outcome = "returned",
                   !.toasts = parsed.toasts]
    ELSE [p EXCEPT !.pc = "awaiting", !.data = parsed.data,
                   !.toasts = parsed.toasts]

\* checkZone(vessels) of api/checkZone.ts up to its await, called by the page
CheckZoneStarts(vessels, req) ==
    IF req.threw
    THEN /\ \E draws \in [1..Len(vessels) -> MockDraws] :
               zr' = zoneCatch([ZoneIdle EXCEPT !.variant = "batch",
                                                !.vessels = vessels],
                               req.error, draws)
         /\ rr' = RetryIdle
    ELSE /\ zr' = [ZoneIdle EXCEPT !.pc = "requesting", !.variant = "batch",
                                   !.vessels = vessels, !.request = req.value,
                                   !.requested = TRUE]
         /\ rr' = retryStart(MAX_RETRIES, INITIAL_RETRY_DELAY)

HandleParsed(p, parsed) ==
    /\ ui' = pageParsed([p EXCEPT !.loading = TRUE], parsed)
    /\ IF parsed.end = "parsed"
       THEN CheckZoneStarts(parsed.data, buildZoneRequest(parsed.data))
       ELSE zr' = ZoneIdle /\ rr' = RetryIdle

\* the page as a click on "Check Zone Violations" finds it: the toasts and
\* the checkZone call recorded are those of the new run
pageClicked(p, csvData) ==
    [p EXCEPT !.csvData = csvData, !.data = << >>, !.toasts = << >>,
              !.outcome = ""]

\* handleZoneCheck up to await checkZone(data), checkZone running up to its
\* own await; the button is disabled while loading is set
HandleZoneCheck ==
    /\ ui.pc \in {"idle", "done"}
    /\ ~ui.loading
    /\ ~ui.abandoned
    /\ \E csvData \in PageCsvTexts :
          IF Trim(csvData) = ""
          THEN /\ ui' = [pageClicked(ui, csvData) EXCEPT
                            !.pc = "done", !.outcome = "blank",
                            !.toasts = <<ErrorToast("Please enter or upload vessel data")>>]
               /\ zr' = ZoneIdle
               /\ rr' = RetryIdle
          ELSE HandleParsed(pageClicked(ui, csvData), parseCsvData(csvData))
    /\ fn' = NoCall
    /\ UNCHANGED <<cache, now, lastGet, hc, api, par>>

\* the continuation of handleZoneCheck after await checkZone(data): the
\* result is mapped, stored and announced, or the rejection is caught
pageReturned(p, z) ==
    IF z.pc = "threw" THEN pageCaught(p, p.toasts)
    ELSE [p EXCEPT !.pc = "done", !.loading = FALSE, !.outcome = "success",
                   !.zoneResults = mapApiResponseToLocalFormat(z.out),
                   !.toasts = p.toasts \o <<SuccessToast>>]

ZoneCheckReturns ==
    /\ ui.pc = "awaiting"
    /\ ~ui.abandoned
    /\ zr.pc \in {"completed", "failed", "threw"}
    /\ ui' = pageReturned(ui, zr)
    /\ UNCHANGED <<rr, cache, now, lastGet, hc, zr, api, fn, par>>

\* handleExport: zoneResults.results goes to downloadData, when there is any
HandleExport ==
    /\ ui.pc = "done"
    /\ fn = NoCall
    /\ ui.zoneResults # Null
    /\ Len(ui.zoneResults.results) > 0
    /\ fn' = [op |-> "downloadData", input |-> Array(ui.zoneResults.results),
              output |-> Undef]
    /\ UNCHANGED <<rr, cache, now, lastGet, hc, zr, api, ui, par>>

\* the page renders MapView with vessels = zoneResults?.results || []
MapViewRenders ==
    /\ ui.pc = "done"
    /\ fn = NoCall
    /\ LET vessels == IF ui.zoneResults = Null THEN << >>
                      ELSE ui.zoneResults.results
       IN fn' = [op |-> "MapView", input |-> Array(vessels),
                 output |-> Array(validVessels(vessels))]
    /\ UNCHANGED <<rr, cache, now, lastGet, hc, zr, api, ui, par>>

NextPage ==
    \/ HandleZoneCheck
    \/ CheckZoneAttemptSucceeds
    \/ CheckZoneAttemptFails
    \/ BackoffElapses
    \/ ZoneCheckReturns
    \/ HandleExport
    \/ MapViewRenders

SpecPage == Init /\ [][NextPage]_vars

\* the vessel rows of the run a result record stands for: those with the
\* record's vessel id
StandsFor(record, vessel) == vessel.vessel_id = record.vessel_id

RecordIsOfItsVessel(record, vessels) ==
    /\ record.latitude.t = "number"
    /\ record.longitude.t = "number"
    /\ Ge(record.latitude, -90)
    /\ Le(record.latitude, 90)
    /\ Ge(record.longitude, -180)
    /\ Le(record.longitude, 180)
    /\ \A i \in 1..Len(vessels) :
          StandsFor(record, vessels[i]) =>
              /\ record.latitude = vessels[i].latitude
              /\ record.longitude = vessels[i].longitude

\* C17: every result record the export (downloadData) or the map (MapView)
\* is handed after a zone check has a latitude in [-90, 90] and a longitude
\* in [-180, 180], and they are the latitude and the longitude of the vessel
\* of the run that has the record's vessel id.
C17_ResultCoordinatesOfVessel ==
    fn.op \in {"downloadData", "MapView"} =>
        \A i \in 1..Len(fn.input.items) :
            RecordIsOfItsVessel(fn.input.items[i], ui.data)

\* the records of a run on one vessel at latitude 10, longitude 120 were
\* handed to the export
C17_Witness ==
    /\ fn.op = "downloadData"
    /\ Len(ui.data) = 1
    /\ ui.data[1].latitude = Num(10)
    /\ ui.data[1].longitude = Num(120)
    /\ Len(fn.input.items) = 1
    /\ fn.input.items[1].vessel_id = Str("V1")

\* the analysis run ended Failed: checkZone returned success = false or
\* rejected, or the handler's try block threw
AnalysisFailed ==
    \/ zr.pc \in {"failed", "threw"}
    \/ ui.outcome = "caught"

IsFailureToast(toast) == toast.variant = "destructive"
IsSuccessToast(toast) == toast.title = "Success"

\* C18: when handleZoneCheck has ended and the analysis run ended Failed, a
\* failure message was shown and no success message; and a run that has
\* ended left data (zoneResults) or a message.
C18_FailureIsShownAsFailure ==
    ui.pc = "done" =>
        /\ AnalysisFailed =>
              /\ Len(SelectSeq(ui.toasts, IsFailureToast)) > 0
              /\ Len(SelectSeq(ui.toasts, IsSuccessToast)) = 0
        /\ ui.zoneResults # Null \/ Len(ui.toasts) > 0

\* checkZone returned success = false after its retries, and handleZoneCheck
\* has ended
C18_Witness ==
    /\ ui.pc = "done"
    /\ zr.pc = "failed"
    /\ zr.requested
    /\ zr.out.success = FALSE

\* the texts the claim names: fewer than 2 lines, a header without latitude
\* or longitude, or no data line that survives the row check
RejectedCsv(csvData) ==
    LET lines == Split(Trim(csvData), "\n")
        cols == Split(lines[1], ",")
        headers == [i \in 1..Len(cols) |-> toLowerCase(Trim(cols[i]))]
        latIndex == indexOf(headers, "latitude")
        lonIndex == indexOf(headers, "longitude")
    IN \/ Len(lines) < 2
       \/ latIndex = 0
       \/ lonIndex = 0
       \/ \A i \in 2..Len(lines) :
             parseLine(headers, latIndex, lonIndex, lines[i], i - 2).row = Null

\* C25: a handleZoneCheck run calls checkZone only with a non-empty list of
\* rows that pass isValidCoordinate; on a text with fewer than 2 lines, with
\* a header that lacks latitude or longitude, or with no surviving data row,
\* checkZone is not called and no request is made, zoneResults stays what it
\* was before the run, and an error toast and no success toast is shown.
C25_RejectedCsvMakesNoRequest ==
    [][(ui.pc \in {"idle", "done"} /\ ui'.pc \in {"done", "awaiting"}) =>
          /\ zr'.pc # "idle" =>
                /\ ~RejectedCsv(ui'.csvData)
                /\ Len(zr'.vessels) > 0
                /\ zr'.vessels = ui'.data
                /\ \A i \in 1..Len(zr'.vessels) :
                      isValidCoordinate(zr'.vessels[i].latitude,
                                        zr'.vessels[i].longitude)
          /\ RejectedCsv(ui'.csvData) =>
                /\ zr'.pc = "idle"
                /\ ~zr'.requested
                /\ ui'.zoneResults = ui.zoneResults
                /\ Len(SelectSeq(ui'.toasts, IsFailureToast)) > 0
                /\ Len(SelectSeq(ui'.toasts, IsSuccessToast)) = 0]_vars

\* after a run that displayed results, a run on a text whose only data row
\* fails the row check ended: the results are still displayed
C25_Witness ==
    /\ ui.pc = "done"
    /\ ui.csvData = "latitude,longitude\nabc,1"
    /\ ui.outcome = "returned"
    /\ ui.zoneResults # Null
    /\ zr.pc = "idle"

\* no attempt stays pending for ever (the request has a timeout: an attempt
\* that has not succeeded at last fails), every backoff timer fires and the
\* continuation of handleZoneCheck runs once checkZone has returned
SpecPageLive ==
    /\ SpecPage
    /\ WF_vars(CheckZoneAttemptFails)
    /\ WF_vars(BackoffElapses)
    /\ WF_vars(ZoneCheckReturns)

\* C29: loading is false whenever a handleZoneCheck run has ended, and a
\* loading flag that is set is eventually cleared.
C29_LoadingEventuallyCleared ==
    /\ [](ui.pc = "done" => ~ui.loading)
    /\ ui.loading ~> ~ui.loading

\* a run that had set loading ended in the catch block (a text of one line)
\* while earlier results are displayed
C29_Witness ==
    /\ ui.pc = "done"
    /\ ui.outcome = "caught"
    /\ ~ui.loading
    /\ ui.zoneResults # Null

(***************************************************************************)
(* Specification SpecAbandon: SpecPage with a user who leaves the page     *)
(* while a run is pending.  The code holds no abort signal and no test of  *)
(* the page being mounted.                                                 *)
(***************************************************************************)
\* the user navigates away while handleZoneCheck awaits checkZone
Abandon ==
    /\ ui.pc = "awaiting"
    /\ ~ui.abandoned
    /\ ui' = [ui EXCEPT !.abandoned = TRUE]
    /\ UNCHANGED <<rr, cache, now, lastGet, hc, zr, api, fn, par>>

\* the continuation of handleZoneCheck of an abandoned run: the toast is
\* shown; setZoneResults and setLoading are called, and take effect when the
\* page is still mounted
AbandonedRunReturns ==
    /\ ui.pc = "awaiting"
    /\ ui.abandoned
    /\ zr.pc \in {"completed", "failed", "threw"}
    /\ \E mounted \in BOOLEAN :
          ui' = IF mounted THEN pageReturned(ui, zr)
                ELSE [ui EXCEPT !.pc = "done",
                                !.outcome = pageReturned(ui, zr).outcome,
                                !.toasts = pageReturned(ui, zr).toasts]
    /\ UNCHANGED <<rr, cache, now, lastGet, hc, zr, api, fn, par>>

NextAbandon ==
    \/ NextPage
    \/ Abandon
    \/ AbandonedRunReturns

SpecAbandon == Init /\ [][NextAbandon]_vars

\* C23: once the user has abandoned a pending run, no further attempt is
\* made for its request, and its completion changes neither zoneResults nor
\* the loading flag.
C23_AbandonedRunStops ==
    [][ui.abandoned =>
          /\ rr'.attempts = rr.attempts
          /\ ui'.zoneResults = ui.zoneResults
          /\ ui'.loading = ui.loading]_vars

\* the run was abandoned during a backoff delay and has made a further
\* attempt since
C23_Witness ==
    /\ ui.abandoned
    /\ ui.pc = "awaiting"
    /\ rr.pc = "calling"
    /\ rr.attempts = 2

(***************************************************************************)
(* Specification SpecCoord: isValidCoordinate (the same function in        *)
(* api/checkZone.ts and in the single-coordinate variant) applied to one   *)
(* pair of values.                                                         *)
(***************************************************************************)
CoordPool ==
    {Undef, Null, NaN, Inf(1), Inf(-1), Bool(TRUE),
     Num(-181), Num(-180), Num(-91), Num(-90), Num(0), Num(90), Num(91), Num(180),
     Num(181),
     Str(""), Str("abc"), Str("45"), Str(" 12 "), Str("-180"), Str("999"),
     Str("Infinity")}

IsValidCoordinateCall ==
    /\ fn = NoCall
    /\ \E lat \in CoordPool, lng \in CoordPool :
          fn' = [op |-> "isValidCoordinate", input |-> Pair(lat, lng),
                 output |-> Bool(isValidCoordinate(lat, lng))]
    /\ UNCHANGED <<rr, cache, now, lastGet, hc, zr, api, ui, par>>

\* candidate coordinates given as numbers and as numeric texts
CandidatePool ==
    {Num(-181), Num(-180), Num(-90), Num(0), Num(90), Num(91), Num(180),
     Str("45"), Str("-180"), Str("-91"), Str("999")}

\* the four coordinate checks applied to one (latitude, longitude) pair:
\* isValidCoordinate, validateVesselData on the vessel of the pair, the row
\* check of processVesselData on the row of the pair, and the row check of
\* handleZoneCheck on the CSV line of the pair
CoordinateChecksCall ==
    /\ fn = NoCall
    /\ \E lat \in CandidatePool, lng \in CandidatePool :
          fn' = [op |-> "coordinateChecks", input |-> Pair(lat, lng),
                 output |->
                    [t |-> "object", n |-> 0, s |-> "",
                     isValidCoordinate |-> Bool(isValidCoordinate(lat, lng)),
                     validateVesselData |->
                        Bool(validateVesselData(
                                Array(<<Vessel(Str("V1"), lat, lng, Undef)>>))),
                     processVesselData |->
                        Bool(standardizeRow(AisRow(lat, Undef, lng, Undef, Num(1),
                                                   Undef, Undef)) # Null),
                     handleZoneCheck |->
                        Bool(parseLine(<<"latitude", "longitude">>, 1, 2,
                                       JsString(lat) \o "," \o JsString(lng),
                                       0).row # Null)]]
    /\ UNCHANGED <<rr, cache, now, lastGet, hc, zr, api, ui, par>>

NextCoord == IsValidCoordinateCall \/ CoordinateChecksCall

SpecCoord == Init /\ [][NextCoord]_vars

\* C16: isValidCoordinate(lat, lon) is true exactly when both arguments parse
\* as finite numbers with -90 <= lat <= 90 and -180 <= lon <= 180; it is false
\* for a missing, null, empty, non-numeric, NaN, infinite or out-of-range
\* argument.
C16_ValidCoordinateIff ==
    fn.op = "isValidCoordinate" =>
        LET lat == fn.input.at0
            lon == fn.input.at1
        IN fn.output = Bool(/\ ParsesAsFiniteNumber(lat)
                            /\ ParsesAsFiniteNumber(lon)
                            /\ NumberParsed(lat) >= -90
                            /\ NumberParsed(lat) <= 90
                            /\ NumberParsed(lon) >= -180
                            /\ NumberParsed(lon) <= 180)

\* isValidCoordinate(null, "") was applied
C16_Witness ==
    /\ fn.op = "isValidCoordinate"
    /\ fn.input.at0 = Null
    /\ fn.input.at1 = Str("")

\* C24: for every (latitude, longitude) pair given as numbers or as numeric
\* texts, isValidCoordinate, validateVesselData, the row check of
\* processVesselData and the row check of the manual CSV path decide alike.
C24_CoordinateChecksAgree ==
    fn.op = "coordinateChecks" =>
        /\ fn.output.validateVesselData = fn.output.isValidCoordinate
        /\ fn.output.processVesselData = fn.output.isValidCoordinate
        /\ fn.output.handleZoneCheck = fn.output.isValidCoordinate

\* the four checks were applied to the latitude "45" and the longitude 90
C24_Witness ==
    /\ fn.op = "coordinateChecks"
    /\ fn.input.at0 = Str("45")
    /\ fn.input.at1 = Num(90)
    /\ fn.output.isValidCoordinate = Bool(TRUE)

(***************************************************************************)
(* Specification SpecConcurrentClient: two callers make one cached         *)
(* enhancedApiClient call each, at the same time.  JavaScript runs each    *)
(* call up to its await without interruption, so the steps of a call are:  *)
(* the start (apiCache.get and, on a miss, the first fn()), each           *)
(* settlement of fn() with what follows it, and each backoff timer.        *)
(***************************************************************************)
ConcurrentCalls ==
    {ApiCallOf("healthCheck", "", ""), ApiCallOf("analyzeVessel", "v1", "d1")}

ConcurrentFailures == {HttpOutcome(500), HttpOutcome(401)}

EndedCalls(p) == {c \in Callers : p[c].pc = "done"}
InFlight(p) == {c \in Callers : p[c].pc \in {"requesting", "checking"}}

\* the call of a caller returns or rejects
procEnds(q, ok, value, rank) ==
    [q EXCEPT !.pc = "done", !.ok = ok, !.value = value, !.order = rank]

\* const cached = apiCache.get(cacheKey); if (cached) return cached;
\* const data = await retryRequest(...)
ClientCallStarts(c) ==
    /\ par[c].pc = "idle"
    /\ \E call \in ConcurrentCalls :
          LET got == cacheGet(cache, cacheKeyOf(call), now)
              q == [par[c] EXCEPT !.call = call, !.overlapped = InFlight(par) # {}]
          IN /\ cache' = got.cache
             /\ par' = [par EXCEPT ![c] =
                           IF servedFromCache(got.value)
                           THEN procEnds(q, TRUE, got.value, Cardinality(EndedCalls(par)) + 1)
                           ELSE [q EXCEPT !.pc = "requesting", !.missed = TRUE,
                                          !.rr = retryStart(MAX_RETRIES, INITIAL_RETRY_DELAY)]]
    /\ UNCHANGED <<rr, now, lastGet, hc, zr, api, ui, fn>>

\* the request of a caller resolves: apiCache.set(cacheKey, data, ttl); return data
ClientAttemptSucceeds(c) ==
    /\ par[c].pc = "requesting"
    /\ par[c].rr.pc = "calling"
    /\ \E body \in ApiResponses(par[c].call.op) :
          LET r == retrySettle(par[c].rr, OkOutcome(body))
              done == afterRequest(par[c].call, r.value)
          IN /\ cache' = IF done.store
                         THEN cacheSet(cache, cacheKeyOf(par[c].call), done.value,
                                       ttlOf(par[c].call), now)
                         ELSE cache
             /\ par' = [par EXCEPT ![c] =
                           procEnds([par[c] EXCEPT !.rr = r, !.answer = body],
                                    ~done.threw, done.value,
                                    Cardinality(EndedCalls(par)) + 1)]
    /\ UNCHANGED <<rr, now, lastGet, hc, zr, api, ui, fn>>

\* the request of a caller fails: retryRequest waits, or throws and the call
\* rejects without touching the cache
ClientAttemptFails(c) ==
    /\ par[c].pc = "requesting"
    /\ par[c].rr.pc = "calling"
    /\ \E o \in ConcurrentFailures :
          LET r == retrySettle(par[c].rr, o)
          IN par' = [par EXCEPT ![c] =
                        IF r.pc = "threw"
                        THEN procEnds([par[c] EXCEPT !.rr = r], FALSE, Undef,
                                      Cardinality(EndedCalls(par)) + 1)
                        ELSE [par[c] EXCEPT !.rr = r]]
    /\ UNCHANGED <<rr, cache, now, lastGet, hc, zr, api, ui, fn>>

\* the backoff timer of a caller's retryRequest fires
ProcBackoffElapses(c) ==
    /\ par[c].rr.pc = "waiting"
    /\ par' = [par EXCEPT ![c] = [par[c] EXCEPT !.rr = retryBackoffElapsed(par[c].rr)]]
    /\ UNCHANGED <<rr, cache, now, lastGet, hc, zr, api, ui, fn>>

NextConcurrentClient ==
    \E c \in Callers :
        \/ ClientCallStarts(c)
        \/ ClientAttemptSucceeds(c)
        \/ ClientAttemptFails(c)
        \/ ProcBackoffElapses(c)

SpecConcurrentClient == Init /\ [][NextConcurrentClient]_vars

\* two callers made the same cached call and both missed the cache
BothMissed(c, d) ==
    /\ c # d
    /\ par[c].call # NoApiCall
    /\ par[c].call = par[d].call
    /\ par[c].missed
    /\ par[d].missed

\* C21: identical concurrent requests are not deduplicated: when two callers
\* make the same cached call and both miss the cache, each issues a network
\* call of its own, and once both have completed the cache holds one entry
\* for the key: the response of the call that completed last.
C21_IdenticalCallsNotDeduplicated ==
    \A c \in Callers : \A d \in Callers :
        BothMissed(c, d) =>
            /\ par[c].rr.attempts >= 1
            /\ par[d].rr.attempts >= 1
            /\ (/\ par[c].pc = "done" /\ par[c].ok
                /\ par[d].pc = "done" /\ par[d].ok
                /\ par[c].order < par[d].order)
               => /\ cacheKeyOf(par[d].call) \in DOMAIN cache
                  /\ cache[cacheKeyOf(par[d].call)].data = par[d].value
                  /\ par[d].value = par[d].answer

C21_Witness ==
    /\ BothMissed("A", "B")
    /\ par["A"].pc = "done" /\ par["A"].ok /\ par["A"].order = 2
    /\ par["B"].pc = "done" /\ par["B"].ok /\ par["B"].order = 1
    /\ par["A"].call.op = "analyzeVessel"
    /\ par["A"].value = Obj("analysis-2")
    /\ par["B"].value = Obj("analysis-1")
    /\ par["B"].rr.attempts = 2
    /\ par["B"].overlapped
    /\ cache["vessel-analysis-v1"].data = Obj("analysis-2")

(***************************************************************************)
(* Specification SpecConcurrentZone: two checkZone runs in flight at the   *)
(* same time.  vessels, vesselRequests and result are locals of a call of  *)
(* checkZone and checkZone.ts keeps no module-level state, so each run     *)
(* has a record of its own; the steps of a run are its suspension points.  *)
(***************************************************************************)
RunVesselLists ==
    {<<Vessel(Str("V1"), Num(10), Num(20), Str("fishing"))>>,
     <<Vessel(Str("V1"), Num(10), Num(20), Str("fishing")),
       Vessel(Undef, Str("45"), Num(-180), Str("transit"))>>,
     <<Vessel(Str("V3"), Num(91), Num(0), Str("transit"))>>}

RunResponses ==
    {Null,
     ZoneResponse(Array(<< >>), [violations |-> Num(0), mpa |-> Num(0), eez |-> Num(0)]),
     ZoneResponse(Array(<<BackendResult(Str("V1"), Str("eez"), Pair(Num(20), Num(10)),
                                        Str("high"), Str("inside EEZ"))>>),
                  [violations |-> Num(1), mpa |-> Num(0), eez |-> Num(1)])}

\* the outcomes of the Math.random() calls of a run, for one vessel
RunDraws ==
    {[zone |-> "mpa", severity |-> "high"], [zone |-> "eez", severity |-> "low"]}

\* the locals a run of checkZone reads after its await
MutOwnRun_SharedBuffer(p, c) == p["A"]
ownRun(p, c) == p[c]

\* checkZone(vessels) of one run up to its await
RunCheckZoneCall(c) ==
    /\ par[c].pc = "idle"
    /\ \E vessels \in RunVesselLists :
          LET z == [ZoneIdle EXCEPT !.variant = "batch", !.vessels = vessels]
              req == buildZoneRequest(vessels)
          IN IF req.threw
             THEN \E draws \in [1..Len(vessels) -> RunDraws] :
                     par' = [par EXCEPT ![c] =
                                [@ EXCEPT !.pc = "done", !.input = vessels,
                                          !.overlapped = InFlight(par) # {},
                                          !.zr = zoneCatch(z, req.error, draws)]]
             ELSE par' = [par EXCEPT ![c] =
                             [@ EXCEPT !.pc = "checking", !.input = vessels,
                                       !.overlapped = InFlight(par) # {},
                                       !.zr = [z EXCEPT !.pc = "requesting",
                                                        !.request = req.value,
                                                        !.requested = TRUE],
                                       !.rr = retryStart(MAX_RETRIES, INITIAL_RETRY_DELAY)]]
    /\ UNCHANGED <<rr, cache, now, lastGet, hc, zr, api, ui, fn>>

\* the service answers a run: return formatAPIResponse(result, vessels)
RunAttemptSucceeds(c) ==
    /\ par[c].pc = "checking"
    /\ ownRun(par, c).zr.pc = "requesting"
    /\ ownRun(par, c).rr.pc = "calling"
    /\ \E result \in RunResponses :
          LET run == ownRun(par, c)
              r == retrySettle(run.rr, OkOutcome(result))
              res == formatAPIResponse(r.value, run.zr.vessels)
          IN IF res.threw
             THEN \E draws \in [1..Len(run.zr.vessels) -> RunDraws] :
                     par' = [par EXCEPT ![c] =
                                [@ EXCEPT !.pc = "done", !.answer = result, !.rr = r,
                                          !.zr = zoneCatch(run.zr, res.error, draws)]]
             ELSE par' = [par EXCEPT ![c] =
                             [@ EXCEPT !.pc = "done", !.answer = result, !.rr = r,
                                       !.zr = zoneCompleted(run.zr, r.value, res.value)]]
    /\ UNCHANGED <<rr, cache, now, lastGet, hc, zr, api, ui, fn>>

\* an attempt of a run fails: retryRequest waits, or throws into the catch
\* block of checkZone
RunAttemptFails(c) ==
    /\ par[c].pc = "checking"
    /\ ownRun(par, c).zr.pc = "requesting"
    /\ ownRun(par, c).rr.pc = "calling"
    /\ \E o \in ZoneFailures :
          LET run == ownRun(par, c)
              r == retrySettle(run.rr, o)
          IN IF r.pc = "threw"
             THEN \E draws \in [1..Len(run.zr.vessels) -> RunDraws] :
                     par' = [par EXCEPT ![c] =
                                [@ EXCEPT !.pc = "done", !.rr = r,
                                          !.zr = zoneCatch(run.zr, r.error, draws)]]
             ELSE par' = [par EXCEPT ![c] = [@ EXCEPT !.rr = r]]
    /\ UNCHANGED <<rr, cache, now, lastGet, hc, zr, api, ui, fn>>

NextConcurrentZone ==
    \E c \in Callers :
        \/ RunCheckZoneCall(c)
        \/ RunAttemptSucceeds(c)
        \/ RunAttemptFails(c)
        \/ ProcBackoffElapses(c)

SpecConcurrentZone == Init /\ [][NextConcurrentZone]_vars

\* the error the catch block of a run that failed was given
RunError(q) ==
    IF buildZoneRequest(q.input).threw THEN buildZoneRequest(q.input).error
    ELSE IF q.rr.pc = "threw" THEN q.rr.error
    ELSE formatAPIResponse(q.answer, q.input).error

\* what a run returned is built from the vessels it was given and from the
\* answer (or the failure) of its own request
RunBuiltFromOwn(c) ==
    LET q == par[c]
    IN /\ q.zr.requested => q.zr.request = buildZoneRequest(q.input).value
       /\ (q.pc = "done" /\ q.zr.pc = "completed") =>
             /\ ~formatAPIResponse(q.answer, q.input).threw
             /\ q.zr.out = formatAPIResponse(q.answer, q.input).value
       /\ (q.pc = "done" /\ q.zr.pc = "failed") =>
             \E draws \in [1..Len(q.input) -> RunDraws] :
                 q.zr.out = formatErrorResponse(q.input, RunError(q), draws).value

\* a step of one run leaves the record of the other run as it was
OneRunSteps ==
    \A c \in Callers : \A d \in Callers :
        (c # d /\ par'[c] # par[c]) => par'[d] = par[d]

\* C22: when two analyses are in flight at the same time, under every
\* interleaving of their suspension points the result of each run is built
\* only from the vessels that run was given and from the remote response of
\* that run, and no step of a run reads or changes the data of the other.
C22_RunsKeepTheirOwnData ==
    /\ [](\A c \in Callers : RunBuiltFromOwn(c))
    /\ [][OneRunSteps]_vars

C22_Witness ==
    /\ par["A"].pc = "done" /\ par["A"].zr.pc = "completed"
    /\ par["B"].pc = "done" /\ par["B"].zr.pc = "failed"
    /\ Len(par["A"].input) = 1 /\ Len(par["B"].input) = 2
    /\ par["A"].rr.attempts = 2 /\ par["B"].rr.attempts = 2
    /\ par["A"].zr.out.total_vessels = 1
    /\ par["A"].zr.out.violations = Num(1)
    /\ par["B"].zr.out.total_vessels = 2
    /\ par["B"].answer = Null
    /\ par["B"].overlapped

====
